---- MODULE Spec2Model ----
(***************************************************************************)
(* pico-ioc: the resolution engine.                                        *)
(*                                                                         *)
(* Spec / SpecSeq model PicoContainer.get / aget (container.py) on top of  *)
(* ScopedCaches / ScopeManager (scope.py), ComponentFactory (factory.py),  *)
(* the provider built by _build_class (api.py) and the lazy binding of     *)
(* Registrar.attach_runtime (api.py).  Every call stack (a thread, or an   *)
(* asyncio task) has its own context: its resolution chain and its scope   *)
(* id.  The caches, the registry and the objects are shared.  The code     *)
(* takes no lock in get/aget, so a step of one call stack can run between  *)
(* any two steps of another.                                               *)
(***************************************************************************)
EXTENDS Integers, Sequences, FiniteSets, TLC

\* ------------------------------------------------------------------ bounds
MaxOps == 3          \* top-level get/aget calls in one execution
MaxNest == 1         \* nested activations of the request scope per call stack
MaxDepth == 2        \* SpecScope: nested request blocks per call stack
MaxActs == 2         \* SpecScope: activations in one execution
MaxObjs == 2         \* SpecScope: objects put into buckets in one execution
MaxParams == 2       \* SpecBuild: constructor parameters of one component
MaxTotal == 3        \* SpecBuild: constructor parameters in the descriptor table
MaxMethods == 2      \* SpecBuild: configure methods of one class
MaxInterceptors == 2 \* SpecAop: interceptors declared on the method
MaxCalls == 2        \* SpecAop: calls of the method through the proxy
MaxCands == 3        \* SpecReg: declarations in the scanned module

\* --------------------------------------------------------------- constants
None == 0            \* Python's None, as a value and as "no scope id"
Missing == 0 - 1     \* a key that is absent from a bucket's dict

Procs == {"t1", "t2"}
RIDs == {1, 2}       \* scope-instance ids of the request scope

SCOPE_SINGLETON == "singleton"
SCOPE_PROTOTYPE == "prototype"
SCOPE_REQUEST == "request"

\* The descriptor table (ComponentLocator._metadata) and what each component's
\* class does when it is built.
Keys == {"S", "A", "B", "R", "P", "Z", "Y", "D", "N", "E", "ZY", "YE", "DX", "LX"}

\* ProviderMetadata.scope
Scope(k) ==
  CASE k = "R" -> SCOPE_REQUEST
    [] k = "P" -> SCOPE_PROTOTYPE
    [] OTHER -> SCOPE_SINGLETON

\* ProviderMetadata.lazy
Lazy(k) == k \in {"Z", "ZY", "LX"}

\* constructor parameters, in signature order (_resolve_args)
Deps(k) ==
  CASE k = "A" -> <<"B">>
    [] k = "B" -> <<"A">>
    [] k = "D" -> <<"Y">>
    [] k \in {"DX", "LX"} -> <<"X">>
    [] OTHER -> <<>>

\* what calling the class / provider body does: "ok" builds a new object,
\* "none" returns None, "raise" raises
Body(k) ==
  CASE k = "N" -> "none"
    [] k = "E" -> "raise"
    [] OTHER -> "ok"

\* the component's @configure hook: "none", "sync", "async", or "araise", an
\* async hook that raises when it is awaited
Hook(k) ==
  CASE k \in {"Y", "ZY"} -> "async"
    [] k = "YE" -> "araise"
    [] k = "S" -> "sync"
    [] OTHER -> "none"

\* ComponentFactory._providers: the bound keys
Bound == Keys

\* keys a caller may ask for that have no descriptor and no binding: the base
\* type T of the classes of S and P, the base type U of the classes of R and
\* Z, the declared name "nm" of R, and X, which nothing provides
AllKeys == Keys \cup {"T", "U", "nm", "X"}

\* the descriptor table in registration order (dict order of _metadata)
Registration == <<"P", "S", "A", "B", "R", "Z", "Y", "D", "N", "E", "ZY", "YE", "DX", "LX">>

\* isinstance(key, type): every key but the declared name is a class
IsType(k) == k # "nm"

\* issubclass(md.provided_type or md.concrete_class, base), for typ is not base
SubclassOf(k, base) ==
  \/ base = "T" /\ k \in {"S", "P"}
  \/ base = "U" /\ k \in {"R", "Z"}

\* ProviderMetadata.primary
Primary(k) == k = "S"

\* ProviderMetadata.pico_name
PicoName(k) == IF k = "R" THEN "nm" ELSE "none"

\* the keys an application resolves at top level, one per execution
Roots == {{"S"}, {"A"}, {"R"}, {"P"}, {"Z"}, {"Y"}, {"D"}, {"N"}, {"E"}, {"ZY"},
          {"YE"}, {"DX"}, {"LX"}, {"X"}, {"T"}, {"U"}}

VARIABLES
  procs,       \* the call stacks that run in this execution
  focus,       \* the keys the application resolves in this execution
  singleton,   \* ScopedCaches._singleton._instances
  by_scope,    \* ScopedCaches._by_scope["request"]: scope id -> bucket
  heap,        \* the objects created so far, by id (1..Len(heap))
  calls,       \* per key, how often the component's own provider has run
  stack,       \* per call stack, the frames of get/aget in progress
  chain,       \* per call stack, the context variable _resolve_chain
  sid,         \* per call stack, the request scope's context variable (a stack of ids)
  hist,        \* per call stack, the outcomes of its finished top-level calls
  ops,         \* top-level calls started so far
  touched,     \* proxies that a caller has accessed after get returned them
  observers,   \* PicoContainer._observers: what each observer's callbacks do
  notified,    \* per observer, the callbacks it has received
  events,      \* cache hits and commits so far: the callbacks each observer is due
  binding,     \* ComponentFactory._providers: per key, which provider is bound
  \* one UnifiedComponentProxy built with an object_creator (SpecProxy)
  ptarget,     \* _target: None, or the id of the object the creator returned
  plock,       \* _lock: the thread that holds the RLock, or "free"
  phook,       \* what container._run_configure_methods gives: "absent", "sync", "async"
  pbuilds,     \* invocations of the creator so far
  pfails,      \* creator invocations that ended without a target being set
  pconf,       \* the configure hooks have completed on the target
  loop,        \* the task the event loop thread is running, or "none"
  apc,         \* per accessor, where it is
  atmp,        \* per accessor, its local variable tgt
  aobs,        \* per accessor, the target it obtained (None: not yet, Failed: an exception)
  \* ScopeManager and ScopedCaches on their own, and shutdown (SpecScope)
  cur,         \* per call stack, the value of the request scope's context variable
  toks,        \* per call stack, the tokens of its open request blocks, innermost last
  closed,      \* per call stack, the id of the block it left last, or None
  acts,        \* activations so far
  bmap,        \* _by_scope["request"]: the (id, bucket) pairs in insertion order
  bstore,      \* the ComponentContainer objects made so far; 1 is _singleton
  popped,      \* the buckets cleanup_scope has removed
  spc,         \* per call stack, where it is inside for_scope
  sbk,         \* per call stack, the bucket for_scope gave it
  okind,       \* per object, its cleanup hook: "none", "ok" or "raise"
  cleaned,     \* per object, how often its cleanup hook was invoked
  shut,        \* shutdown(): "no", "done" (returned) or "raised"
  registered,  \* the container is in PicoContainer._container_registry
  \* init(): validation and the static cycle check, then _build_class (SpecBuild)
  table,       \* the descriptor table: per component, its constructor parameters
  phase,       \* "new", or how init() ended: "invalid", "cycle", "ready"
  errors,      \* the messages of the InvalidBindingError of validation
  cycle,       \* the cycle the InvalidBindingError of the cycle check names
  made,        \* the components whose class has been instantiated
  hooks,       \* per component built, its configure methods as declared and as run
  \* one UnifiedComponentProxy around a built component with a method M that
  \* declares interceptors (SpecAop)
  icpts,         \* @intercepted_by(...) on M: what each interceptor's invoke does
  is_async,      \* inspect.iscoroutinefunction(M)
  md_scope,      \* the scope of the component's descriptor
  component_key, \* _component_key: "absent" (no proxy yet), "none" or "K"
  rid,           \* the active id of the request scope, or None
  wcache,        \* _cache["M"]: <<>>, or one entry (sig, wrapped, cls_tuple)
  last,          \* <<>>, or what the latest call proxy.M() did
  ncalls,        \* calls of proxy.M() so far
  probe,         \* <<>>, or the key and the outcome of the latest container.has(key)
  \* Registrar: the declarations of one module that concern a key K (SpecReg)
  \* and the scopes of the descriptor table (SpecPromote)
  decls,         \* the declarations, in the order register_module meets them
  queued,        \* _candidates[K]: the declarations queued for K, in order
  onmiss,        \* _on_missing: the fallback declarations, in order
  rbound,        \* the declaration whose provider is bound to K, or 0
  rmeta,         \* the declarations that have a descriptor in _metadata
  rphase,        \* "off", "new", "scanned" (register_module ran), "done" (finalize ran)
  mscope         \* per component, ProviderMetadata.scope

cvars == <<procs, focus, singleton, by_scope, heap, calls, stack, chain, sid, hist, ops, touched,
           observers, notified, events, binding>>
ovars == <<observers, notified, events, binding>>
pvars == <<ptarget, plock, phook, pbuilds, pfails, pconf, loop, apc, atmp, aobs>>
svars == <<cur, toks, closed, acts, bmap, bstore, popped, spc, sbk, okind, cleaned, shut,
           registered>>
bvars == <<table, phase, errors, cycle, made, hooks>>
avars == <<icpts, is_async, md_scope, component_key, rid, wcache, last, ncalls>>
hvars == <<probe>>
rvars == <<decls, queued, onmiss, rbound, rmeta, rphase, mscope>>
evars == <<bvars, avars, hvars, rvars>>
corevars == <<cvars, pvars, svars>>
vars == <<cvars, pvars, svars, evars>>

\* ------------------------------------------------------------------ helpers
Last(s) == s[Len(s)]
Front(s) == SubSeq(s, 1, Len(s) - 1)
Range(s) == {s[i] : i \in 1..Len(s)}

EmptyBucket == [k \in AllKeys |-> Missing]

\* ComponentContainer.get: dict.get, None for an absent key
BucketGet(b, k) == IF b[k] = Missing THEN None ELSE b[k]

\* a put that stores nothing
BucketPutDropped(b, k, v) == b

\* ComponentContainer.put
BucketPut(b, k, v) == [b EXCEPT ![k] = v]

\* one scope id for every call stack: that of t1
CurrentIdShared(t) == IF sid["t1"] = <<>> THEN None ELSE Last(sid["t1"])

\* ContextVarScope.get_id / ScopeManager.get_id for the calling context
CurrentId(t) == IF sid[t] = <<>> THEN None ELSE Last(sid[t])

\* a lookup that leaves every key as it was asked
CanonicalKeyAsAsked(key) == key

\* PicoContainer._canonical_key
CanonicalKey(key) ==
  IF key \in Bound THEN key
  ELSE LET cands == SelectSeq(Registration, LAMBDA k : SubclassOf(k, key))
           prim == SelectSeq(cands, Primary)
           named == SelectSeq(Registration, LAMBDA k : PicoName(k) = key)
       IN IF IsType(key) /\ cands # <<>>
          THEN (IF prim # <<>> THEN prim[1] ELSE cands[1])
          ELSE IF ~IsType(key) /\ named # <<>> THEN named[1]
          ELSE key

\* graph_export._find_subtype_key: the first descriptor of the table whose
\* type is a subclass of the requested type, the requested key without one
FindSubtypeKey(dep_key) ==
  LET cands == SelectSeq(Registration, LAMBDA k : k = dep_key \/ SubclassOf(k, dep_key))
  IN IF cands # <<>> THEN cands[1] ELSE dep_key

\* graph_export._map_dep_to_bound_key: the node a dependency request is drawn to
MapDepToBoundKey(dep_key) ==
  LET named == SelectSeq(Registration, LAMBDA k : PicoName(k) = dep_key)
  IN IF dep_key \in Range(Registration) THEN dep_key
     ELSE IF ~IsType(dep_key) /\ named # <<>> THEN named[1]
     ELSE IF IsType(dep_key) THEN FindSubtypeKey(dep_key)
     ELSE dep_key

\* every key cached as a singleton
ScopeOfAlwaysSingleton(k) == SCOPE_SINGLETON

\* PicoContainer._cache_for: the scope of the key's descriptor, singleton without one
ScopeOf(k) == IF k \in Keys THEN Scope(k) ELSE SCOPE_SINGLETON

\* ---- errors: the exception and its causes, outermost first
Err(ty, k) == [ty |-> ty, key |-> k, chain |-> <<>>, origin |-> "none"]
CreationError(k, cause) == <<Err("ComponentCreationError", k)>> \o cause
\* a cycle error that does not carry the chain
CycleErrorWithoutChain(ch, k) ==
  CreationError(k, <<Err("CircularDependencyError", k)>>)

CycleError(ch, k) ==
  CreationError(k, <<[Err("CircularDependencyError", k) EXCEPT !.chain = ch]>>)
NotFoundError(k, ch) ==
  <<[Err("ProviderNotFoundError", k) EXCEPT !.origin = IF ch = <<>> THEN "none" ELSE Last(ch)]>>
AsyncError(k) == <<Err("AsyncResolutionError", k)>>
ScopeErr(k) == <<Err("ScopeError", k)>>
UserError(k) == <<Err("UserError", k)>>
ObserverError(k) == <<Err("ObserverError", k)>>
NoneTargetError(k) == <<Err("RuntimeError", k)>>
AwaitTypeError(k) == <<Err("TypeError", k)>>
CancelledError(k) == <<Err("CancelledError", k)>>
NoErr == <<>>

\* ---- objects
\* by: the provider that made the object, the one bound to its key at the time
Inst(k, conf) == [cls |-> "inst", key |-> k, conf |-> conf, tgt |-> None, by |-> binding[k]]
Coro(k, inst) == [cls |-> "coro", key |-> k, conf |-> FALSE, tgt |-> inst, by |-> binding[k]]
Proxy(k, tgt) == [cls |-> "proxy", key |-> k, conf |-> FALSE, tgt |-> tgt, by |-> binding[k]]

IsProxy(h, v) == v # None /\ h[v].cls = "proxy"
IsCoro(h, v) == v # None /\ h[v].cls = "coro"

\* nothing is awaitable
IsAwaitableNever(h, v) == FALSE

\* inspect.isawaitable(v), once a proxy's __class__ has been read
IsAwaitable(h, v) == IsCoro(h, v) \/ (IsProxy(h, v) /\ IsCoro(h, h[v].tgt))

NewFrame(k, mode) ==
  [req |-> k, key |-> k, mode |-> mode, pc |-> "resolve", di |-> 1,
   val |-> None, tok |-> <<>>, pushed |-> FALSE]

Top(t) == Last(stack[t])

Outcome(f, ok, v, e, hit, id) ==
  [key |-> f.req, mode |-> f.mode, ok |-> ok, val |-> v, err |-> e, hit |-> hit, sid |-> id]

\* ------------------------------------------------- ScopedCaches.for_scope
\* a scope that always counts as active
NoActiveIdNever(sc, id) == FALSE

\* for_scope raises ScopeError: a scope other than singleton and prototype
\* whose get_id() is None
NoActiveId(sc, id) == sc \notin {SCOPE_SINGLETON, SCOPE_PROTOTYPE} /\ id = None

\* the map of request buckets after for_scope(scopes, sc) under scope id `id`
ForScope(sc, id) ==
  IF sc = SCOPE_REQUEST /\ id \notin DOMAIN by_scope
  THEN [r \in DOMAIN by_scope \cup {id} |-> IF r = id THEN EmptyBucket ELSE by_scope[r]]
  ELSE by_scope

\* a request bucket that never answers
CacheGetNoRequest(bs, sc, id, k) ==
  IF sc = SCOPE_SINGLETON THEN BucketGet(singleton, k) ELSE None

\* what ComponentContainer.get(k) answers on the bucket for_scope returned
CacheGet(bs, sc, id, k) ==
  CASE sc = SCOPE_SINGLETON -> BucketGet(singleton, k)
    [] sc = SCOPE_PROTOTYPE -> None
    [] OTHER -> BucketGet(bs[id], k)

\* ------------------------------------------------ leaving a frame
\* an exception crossing the enclosing frames: a frame that is inside its
\* provider call wraps it, unless it is a ProviderNotFoundError; a frame that
\* is past the try block (get running a lazy proxy's creator) lets it pass
RECURSIVE Propagate(_, _)
Propagate(frames, e) ==
  IF frames = <<>> THEN e
  ELSE Propagate(Front(frames),
                 IF e[1].ty = "ProviderNotFoundError" \/ ~Last(frames).pushed THEN e
                 ELSE CreationError(Last(frames).key, e))

\* finally blocks that leave the chain as the failing frame had it
ChainKept(frames, ch) == ch

\* the finally blocks, innermost first: _resolve_chain.reset(token_chain)
RECURSIVE ChainAfter(_, _)
ChainAfter(frames, ch) ==
  IF frames = <<>> THEN ch
  ELSE ChainAfter(Front(frames), IF Last(frames).pushed THEN Last(frames).tok ELSE ch)

\* the top frame raises e: the exception reaches the top-level caller
Raise(t, e) ==
  /\ stack' = [stack EXCEPT ![t] = <<>>]
  /\ chain' = [chain EXCEPT ![t] = ChainAfter(stack[t], chain[t])]
  /\ hist' = [hist EXCEPT ![t] =
       Append(@, Outcome(stack[t][1], FALSE, None,
                         Propagate(Front(stack[t]), e), FALSE, CurrentId(t)))]

\* the top frame returns v to its caller: the application, or _resolve_args
\* of the enclosing provider, which goes on to its next parameter
Return(t, v, hit) ==
  /\ chain' = chain
  /\ IF Len(stack[t]) = 1
     THEN /\ stack' = [stack EXCEPT ![t] = <<>>]
          /\ hist' = [hist EXCEPT ![t] =
               Append(@, Outcome(Top(t), TRUE, v, NoErr, hit, CurrentId(t)))]
     ELSE /\ stack' = [stack EXCEPT ![t] =
               Append(SubSeq(@, 1, Len(@) - 2), [@[Len(@) - 1] EXCEPT !.di = @ + 1])]
          /\ hist' = hist

\* the top frame goes on with frame g
Step(t, g) ==
  /\ stack' = [stack EXCEPT ![t] = Append(Front(@), g)]
  /\ hist' = hist

\* the cycle guard: for k_in_chain in chain: if k_in_chain == key
InChain(k, ch) == k \in Range(ch)

\* the observers whose callback runs: all of them, or those up to the first
\* one that raises, since the loop has no try block
Reached ==
  LET bad == {i \in 1..Len(observers) : observers[i] = "raise"}
  IN IF bad = {} THEN 1..Len(observers)
     ELSE 1..(CHOOSE i \in bad : \A j \in bad : i <= j)

\* for o in self._observers: o.on_cache_hit(key) / o.on_resolve(key, took_ms),
\* then return v; an observer's exception leaves get/aget instead
Notify(t, k, v, hit) ==
  /\ events' = events + 1
  /\ notified' = [i \in 1..Len(observers) |-> IF i \in Reached THEN notified[i] + 1
                                               ELSE notified[i]]
  /\ IF \E i \in Reached : observers[i] = "raise"
     THEN Raise(t, ObserverError(k))
     ELSE Return(t, v, hit)

\* ----------------------------------------------------------------- actions
\* the application calls container.get(k)
StartGet(t, k) ==
  /\ t \in procs /\ stack[t] = <<>> /\ ops < MaxOps /\ k \in focus
  /\ stack' = [stack EXCEPT ![t] = <<NewFrame(k, "get")>>]
  /\ ops' = ops + 1
  /\ UNCHANGED <<procs, focus, singleton, by_scope, heap, calls, chain, sid, hist, touched, ovars, pvars, svars, evars>>

\* the application awaits container.aget(k)
StartAget(t, k) ==
  /\ t \in procs /\ stack[t] = <<>> /\ ops < MaxOps /\ k \in focus
  /\ stack' = [stack EXCEPT ![t] = <<NewFrame(k, "aget")>>]
  /\ ops' = ops + 1
  /\ UNCHANGED <<procs, focus, singleton, by_scope, heap, calls, chain, sid, hist, touched, ovars, pvars, svars, evars>>

\* _resolve_or_create_internal up to the call of the provider: canonical key,
\* cache check, cycle guard, chain push, provider lookup
Resolve(t) ==
  /\ stack[t] # <<>> /\ Top(t).pc = "resolve"
  /\ LET f == Top(t)
         k == CanonicalKey(f.req)
         sc == ScopeOf(k)
         id == CurrentId(t)
     IN IF NoActiveId(sc, id)
        THEN Raise(t, ScopeErr(k)) /\ UNCHANGED <<by_scope, calls, notified, events>>
        ELSE LET bs == ForScope(sc, id)
                 cached == CacheGet(bs, sc, id, k)
             IN /\ by_scope' = bs
                /\ IF cached # None
                   THEN Notify(t, k, cached, TRUE) /\ UNCHANGED calls
                   ELSE IF InChain(k, chain[t])
                   THEN Raise(t, CycleError(chain[t], k)) /\ UNCHANGED <<calls, notified, events>>
                   ELSE IF k \notin Bound
                   THEN Raise(t, NotFoundError(k, chain[t]))
                        /\ UNCHANGED <<calls, notified, events>>
                   ELSE /\ UNCHANGED <<notified, events>>
                        /\ Step(t, [f EXCEPT !.key = k, !.pc = "deps", !.tok = chain[t],
                                             !.pushed = TRUE])
                        /\ chain' = [chain EXCEPT ![t] = Append(@, k)]
                        /\ calls' = IF Lazy(k) THEN calls ELSE [calls EXCEPT ![k] = @ + 1]
  /\ UNCHANGED <<procs, focus, singleton, heap, sid, ops, touched, observers, binding, pvars, svars, evars>>

\* _resolve_args inside the provider: pico.get(dependency) for the next parameter
ResolveDep(t) ==
  /\ stack[t] # <<>> /\ Top(t).pc = "deps"
  /\ ~Lazy(Top(t).key) /\ Top(t).di <= Len(Deps(Top(t).key))
  /\ stack' = [stack EXCEPT ![t] = Append(@, NewFrame(Deps(Top(t).key)[Top(t).di], "get"))]
  /\ UNCHANGED <<procs, focus, singleton, by_scope, heap, calls, chain, sid, hist, ops, touched, ovars, pvars, svars, evars>>

\* the rest of the provider: lazy_proxy_provider makes a proxy; _build_class
\* calls the class, then runs the configure hooks or hands back the runner
\* coroutine that will; the finally block resets the chain
Construct(t) ==
  /\ stack[t] # <<>> /\ Top(t).pc = "deps"
  /\ Lazy(Top(t).key) \/ Top(t).di > Len(Deps(Top(t).key))
  /\ LET f == Top(t)
         k == f.key
         n == Len(heap) + 1
         done(v) == /\ Step(t, [f EXCEPT !.pc = "built", !.val = v, !.pushed = FALSE])
                    /\ chain' = [chain EXCEPT ![t] = f.tok]
     IN IF Lazy(k) THEN heap' = Append(heap, Proxy(k, None)) /\ done(n)
        ELSE IF Body(k) = "raise" THEN heap' = heap /\ Raise(t, CreationError(k, UserError(k)))
        ELSE IF Body(k) = "none" THEN heap' = heap /\ done(None)
        ELSE IF Hook(k) \in {"async", "araise"}
        THEN heap' = heap \o <<Inst(k, FALSE), Coro(k, n)>> /\ done(n + 1)
        ELSE heap' = Append(heap, Inst(k, Hook(k) = "sync")) /\ done(n)
  /\ UNCHANGED <<procs, focus, singleton, by_scope, calls, sid, ops, touched, ovars, pvars, svars, evars>>

\* get/aget after the result is known not to need awaiting: wrap, fetch the
\* bucket of the requested key again, put, return
Commit(t, v) ==
  LET f == Top(t)
      sc == ScopeOf(f.req)
      id == CurrentId(t)
  IN IF NoActiveId(sc, id)
     THEN Raise(t, ScopeErr(f.req)) /\ UNCHANGED <<singleton, by_scope, notified, events>>
     ELSE /\ singleton' = IF sc = SCOPE_SINGLETON THEN BucketPut(singleton, f.req, v)
                          ELSE singleton
          /\ by_scope' = IF sc = SCOPE_REQUEST
                         THEN [ForScope(sc, id) EXCEPT ![id] = BucketPut(@, f.req, v)]
                         ELSE by_scope
          /\ Notify(t, f.req, v, FALSE)

\* the frame holds a lazy proxy without a target whose creator, the original
\* provider, has a constructor parameter left to resolve
CreatorPending(f) ==
  /\ IsProxy(heap, f.val) /\ heap[f.val].tgt = None
  /\ f.di <= Len(Deps(heap[f.val].key))

\* get/aget once the provider has returned: inspect.isawaitable(instance)
\* reads __class__ of the lazy proxy, the creator starts and _resolve_args
\* calls pico.get(dependency); the resolution chain was reset before that
CreatorDep(t) ==
  /\ stack[t] # <<>> /\ Top(t).pc = "built" /\ CreatorPending(Top(t))
  /\ LET k == heap[Top(t).val].key
     IN /\ stack' = [stack EXCEPT ![t] = Append(@, NewFrame(Deps(k)[Top(t).di], "get"))]
        /\ calls' = IF Top(t).di = 1 THEN [calls EXCEPT ![k] = @ + 1] ELSE calls
  /\ UNCHANGED <<procs, focus, singleton, by_scope, heap, chain, sid, hist, ops, touched, ovars, pvars, svars, evars>>

\* get/aget once the provider has returned: inspect.isawaitable(instance)
\* reads instance.__class__, which on a lazy proxy is _get_real_object and
\* runs the creator; then AsyncResolutionError, the await, or the commit
Finish(t) ==
  /\ stack[t] # <<>> /\ Top(t).pc = "built"
  /\ ~CreatorPending(Top(t))
  /\ LET f == Top(t)
         v == f.val
         n == Len(heap) + 1
     IN IF IsProxy(heap, v) /\ heap[v].tgt = None
        THEN LET k == heap[v].key IN
             /\ calls' = IF Deps(k) = <<>> THEN [calls EXCEPT ![k] = @ + 1] ELSE calls
             /\ IF Body(k) = "raise"
                THEN Raise(t, UserError(k)) /\ UNCHANGED <<heap, singleton, by_scope, notified, events>>
                ELSE IF Body(k) = "none"
                THEN Raise(t, NoneTargetError(k)) /\ UNCHANGED <<heap, singleton, by_scope, notified, events>>
                ELSE IF Hook(k) \in {"async", "araise"}
                THEN /\ heap' = [heap \o <<Inst(k, FALSE), Coro(k, n)>> EXCEPT ![v].tgt = n + 1]
                     /\ Raise(t, IF f.mode = "get" THEN AsyncError(f.req)
                                 ELSE AwaitTypeError(f.req))
                     /\ UNCHANGED <<singleton, by_scope, notified, events>>
                ELSE /\ heap' = [Append(heap, Inst(k, Hook(k) = "sync")) EXCEPT ![v].tgt = n]
                     /\ Commit(t, v)
        ELSE /\ UNCHANGED <<calls, heap>>
             /\ IF IsAwaitable(heap, v)
                THEN IF f.mode = "get"
                     THEN Raise(t, AsyncError(f.req)) /\ UNCHANGED <<singleton, by_scope, notified, events>>
                     ELSE /\ Step(t, [f EXCEPT !.pc = "await"])
                          /\ UNCHANGED <<chain, singleton, by_scope, notified, events>>
                ELSE Commit(t, v)
  /\ UNCHANGED <<procs, focus, sid, ops, touched, observers, binding, pvars, svars, evars>>

\* the runner coroutine of _build_class: the configure hooks have run on inst
RunHooks(h, inst) == [h EXCEPT ![inst].conf = TRUE]

\* aget resumes: the awaited runner coroutine has run the configure hooks and
\* returned the instance; aget goes on to the commit without suspending again
\* a hook that raises when awaited does so outside every try block of aget
Await(t) ==
  /\ stack[t] # <<>> /\ Top(t).pc = "await"
  /\ LET inst == heap[Top(t).val].tgt
     IN IF Hook(heap[inst].key) = "araise"
        THEN Raise(t, UserError(heap[inst].key)) /\ UNCHANGED <<heap, singleton, by_scope, notified, events>>
        ELSE heap' = RunHooks(heap, inst) /\ Commit(t, inst)
  /\ UNCHANGED <<procs, focus, calls, sid, ops, touched, observers, binding, pvars, svars, evars>>

\* the caller abandons an aget that is suspended in its await: the task is
\* cancelled and CancelledError leaves aget at the await expression
Cancel(t) ==
  /\ stack[t] # <<>> /\ Top(t).pc = "await"
  /\ Raise(t, CancelledError(Top(t).req))
  /\ UNCHANGED <<procs, focus, singleton, by_scope, heap, calls, sid, ops, touched, ovars, pvars, svars, evars>>

\* the caller's first attribute access on a proxy that get/aget returned:
\* __getattr__ -> _get_real_object
Touch(t) ==
  /\ t \in procs /\ stack[t] = <<>> /\ hist[t] # <<>>
  /\ Last(hist[t]).ok /\ IsProxy(heap, Last(hist[t]).val)
  /\ Last(hist[t]).val \notin touched
  /\ heap[Last(hist[t]).val].tgt # None
  /\ touched' = touched \cup {Last(hist[t]).val}
  /\ UNCHANGED <<procs, focus, singleton, by_scope, heap, calls, stack, chain, sid, hist, ops, ovars, pvars, svars, evars>>

\* with container.scope("request", r): ScopeManager.activate
Activate(t, r) ==
  /\ t \in procs /\ stack[t] = <<>> /\ ops < MaxOps
  /\ \E k \in focus : Scope(CanonicalKey(k)) = SCOPE_REQUEST
  /\ Len(sid[t]) < MaxNest
  /\ sid' = [sid EXCEPT ![t] = Append(@, r)]
  /\ UNCHANGED <<procs, focus, singleton, by_scope, heap, calls, stack, chain, hist, ops, touched, ovars, pvars, svars, evars>>

\* leaving the block: ScopeManager.deactivate resets the variable to the token's value
Deactivate(t) ==
  /\ t \in procs /\ stack[t] = <<>> /\ sid[t] # <<>>
  /\ sid' = [sid EXCEPT ![t] = Front(@)]
  /\ UNCHANGED <<procs, focus, singleton, by_scope, heap, calls, stack, chain, hist, ops, touched, ovars, pvars, svars, evars>>

\* the application rebinds a key between two calls: ComponentFactory.bind
\* stores the provider and does nothing else
Bind(t, k) ==
  /\ t \in procs /\ stack[t] = <<>> /\ k \in focus \cap Keys /\ binding[k] = 1
  /\ binding' = [binding EXCEPT ![k] = 2]
  /\ UNCHANGED <<procs, focus, singleton, by_scope, heap, calls, stack, chain, sid, hist, ops,
                 touched, observers, notified, events, pvars, svars, evars>>

\* the application calls container.has(k) between two calls: _cache_for(k)
\* takes the scope of k's own descriptor and for_scope gives its bucket
Has(t, k) ==
  /\ t \in procs /\ stack[t] = <<>> /\ k \in focus
  /\ LET sc == ScopeOf(k)
         id == CurrentId(t)
     IN IF NoActiveId(sc, id)
        THEN probe' = <<[key |-> k, out |-> "ScopeError"]>> /\ UNCHANGED by_scope
        ELSE LET bs == ForScope(sc, id)
             IN /\ by_scope' = bs
                /\ probe' = <<[key |-> k,
                               out |-> IF CacheGet(bs, sc, id, k) # None \/ k \in Bound
                                       THEN "true" ELSE "false"]>>
  /\ UNCHANGED <<procs, focus, singleton, heap, calls, stack, chain, sid, hist, ops, touched,
                 ovars, pvars, svars, bvars, avars, rvars>>

\* container.has has not been called
HasIdle == probe = <<>>

\* PicoContainer.__init__ without observers (observers or []), and the
\* bindings as init() made them
NoObservers ==
  /\ observers = <<>> /\ notified = <<>> /\ events = 0
  /\ binding = [k \in Keys |-> 1]

\* ------------------------------------- ScopeManager, ScopedCaches, shutdown
\* The request scope and the caches without the resolution engine: call
\* stacks open and leave request blocks, fetch buckets with for_scope and put
\* objects into them; cleanup_scope and shutdown run the cleanup hooks.
\* for_scope takes no lock, so its check and its insertion are two steps.
Hooks == {"none", "ok", "raise"}

\* a contextvars.Token: the value the variable had before set(); id is the
\* value that set() stored, kept for the record
Token(old, id) == [old |-> old, id |-> id]

\* a reset that clears the variable
ResetCleared(tok) == None

\* ContextVar.reset(token): the variable's value afterwards
ResetTo(tok) == tok.old

\* dict lookup in _by_scope["request"]: the bucket of id r, or None
BucketOf(m, r) ==
  LET hits == SelectSeq(m, LAMBDA e : e.id = r)
  IN IF hits = <<>> THEN None ELSE hits[1].ref

\* bucket[sid] = c: a new pair goes last, an existing id keeps its place
MapSet(m, r, ref) ==
  IF BucketOf(m, r) = None THEN Append(m, [id |-> r, ref |-> ref])
  ELSE [i \in 1..Len(m) |-> IF m[i].id = r THEN [id |-> r, ref |-> ref] ELSE m[i]]

\* bucket.pop(scope_id)
MapPop(m, r) == SelectSeq(m, LAMBDA e : e.id # r)

\* hooks that are never invoked
InvokeNone(cl, objs) == cl

\* _cleanup_container: the invocation counts after every cleanup hook of
\* every object of the bucket has been called once; a hook that raises is
\* logged and the loop goes on
Invoke(cl, objs) ==
  [o \in DOMAIN cl |-> IF o \in Range(objs) /\ okind[o] # "none" THEN cl[o] + 1 ELSE cl[o]]

\* ScopedCaches.all_items: _singleton's items, then every bucket's, in dict order
RECURSIVE AllItems(_)
AllItems(m) == IF m = <<>> THEN <<>> ELSE bstore[m[1].ref] \o AllItems(SubSeq(m, 2, Len(m)))

\* cleanup_all: the objects whose hooks get invoked, in order: the loop has
\* no try block, so it ends at the first hook that raises
RECURSIVE Visited(_)
Visited(items) ==
  IF items = <<>> THEN <<>>
  ELSE IF okind[items[1]] = "raise" THEN <<items[1]>>
  ELSE <<items[1]>> \o Visited(SubSeq(items, 2, Len(items)))

ScopeStep(t, pc, bk) ==
  /\ spc' = [spc EXCEPT ![t] = pc]
  /\ sbk' = [sbk EXCEPT ![t] = bk]

\* with container.scope("request", r): ScopeManager.activate -> ContextVar.set
ScopeEnter(t, r) ==
  /\ spc[t] = "idle" /\ Len(toks[t]) < MaxDepth /\ acts < MaxActs
  /\ cur' = [cur EXCEPT ![t] = r]
  /\ toks' = [toks EXCEPT ![t] = Append(@, Token(cur[t], r))]
  /\ acts' = acts + 1
  /\ UNCHANGED <<cvars, pvars, evars, closed, bmap, bstore, popped, spc, sbk, okind, cleaned, shut,
                 registered>>

\* the end of the block: ScopeManager.deactivate -> ContextVar.reset(token)
ScopeExit(t) ==
  /\ spc[t] = "idle" /\ toks[t] # <<>>
  /\ cur' = [cur EXCEPT ![t] = ResetTo(Last(toks[t]))]
  /\ toks' = [toks EXCEPT ![t] = Front(@)]
  /\ closed' = [closed EXCEPT ![t] = Last(toks[t]).id]
  /\ UNCHANGED <<cvars, pvars, evars, acts, bmap, bstore, popped, spc, sbk, okind, cleaned, shut,
                 registered>>

\* for_scope(scopes, "singleton"): the singleton bucket
ForSingleton(t) ==
  /\ spc[t] = "idle" /\ Len(okind) < MaxObjs
  /\ ScopeStep(t, "hold", 1)
  /\ UNCHANGED <<cvars, pvars, evars, cur, toks, closed, acts, bmap, bstore, popped, okind, cleaned,
                 shut, registered>>

\* for_scope(scopes, "request") up to `if sid in bucket`: ScopeError without
\* an active id, the existing bucket, or on to the insertion
ForRequest(t) ==
  /\ spc[t] = "idle" /\ Len(okind) < MaxObjs
  /\ IF cur[t] = None THEN ScopeStep(t, "idle", None)
     ELSE IF BucketOf(bmap, cur[t]) # None THEN ScopeStep(t, "hold", BucketOf(bmap, cur[t]))
     ELSE ScopeStep(t, "create", None)
  /\ UNCHANGED <<cvars, pvars, evars, cur, toks, closed, acts, bmap, bstore, popped, okind, cleaned,
                 shut, registered>>

\* for_scope: c = ComponentContainer(); bucket[sid] = c; return c
ForRequestCreate(t) ==
  /\ spc[t] = "create"
  /\ bstore' = Append(bstore, <<>>)
  /\ bmap' = MapSet(bmap, cur[t], Len(bstore) + 1)
  /\ ScopeStep(t, "hold", Len(bstore) + 1)
  /\ UNCHANGED <<cvars, pvars, evars, cur, toks, closed, acts, popped, okind, cleaned, shut,
                 registered>>

\* ComponentContainer.put of a new object on the bucket for_scope returned
Put(t, h) ==
  /\ spc[t] = "hold"
  /\ okind' = Append(okind, h)
  /\ cleaned' = Append(cleaned, 0)
  /\ bstore' = [bstore EXCEPT ![sbk[t]] = Append(@, Len(okind) + 1)]
  /\ ScopeStep(t, "idle", None)
  /\ UNCHANGED <<cvars, pvars, evars, cur, toks, closed, acts, bmap, popped, shut, registered>>

\* ScopedCaches.cleanup_scope("request", r)
CleanupScope(t, r) ==
  /\ spc[t] = "idle" /\ BucketOf(bmap, r) # None
  /\ bmap' = MapPop(bmap, r)
  /\ popped' = popped \cup {BucketOf(bmap, r)}
  /\ cleaned' = Invoke(cleaned, bstore[BucketOf(bmap, r)])
  /\ UNCHANGED <<cvars, pvars, evars, cur, toks, closed, acts, bstore, spc, sbk, okind, shut,
                 registered>>

\* PicoContainer.shutdown: cleanup_all, then the container leaves the
\* registry; an exception of cleanup_all leaves shutdown before that
Shutdown(t) ==
  /\ spc[t] = "idle" /\ shut = "no" /\ okind # <<>>
  /\ LET items == bstore[1] \o AllItems(bmap)
         hooked == SelectSeq(items, LAMBDA o : okind[o] # "none")
         seen == Visited(hooked)
         raised == seen # <<>> /\ okind[Last(seen)] = "raise"
     IN /\ cleaned' = [o \in DOMAIN cleaned |->
                         IF o \in Range(seen) THEN cleaned[o] + 1 ELSE cleaned[o]]
        /\ shut' = IF raised THEN "raised" ELSE "done"
        /\ registered' = IF raised THEN registered ELSE FALSE
  /\ UNCHANGED <<cvars, pvars, evars, cur, toks, closed, acts, bmap, bstore, popped, spc, sbk, okind>>

\* the scope machinery of SpecScope, unused in the other specifications
ScopeIdle ==
  /\ cur = [t \in Procs |-> None] /\ toks = [t \in Procs |-> <<>>]
  /\ closed = [t \in Procs |-> None] /\ acts = 0
  /\ bmap = <<>> /\ bstore = <<<<>>>> /\ popped = {}
  /\ spc = [t \in Procs |-> "off"] /\ sbk = [t \in Procs |-> None]
  /\ okind = <<>> /\ cleaned = <<>> /\ shut = "no" /\ registered = TRUE

\* --------------------------------------------------- init() and _build_class
\* The descriptor table of an application: three component classes in
\* registration order, each with its constructor parameters.  A parameter
\* asks for a key: a component class, the class x that nothing provides, or
\* the builtin int.  "req" is a plain annotated parameter, "opt" one with a
\* default value, "list" a List[...] parameter without qualifier.
Components == <<"a", "b", "c">>
Comps == Range(Components)
ParamKeys == Comps \cup {"x", "int"}
Params ==
  {[key |-> k, kind |-> "req"] : k \in ParamKeys}
  \cup {[key |-> "x", kind |-> "opt"], [key |-> "x", kind |-> "list"]}

\* the parameter lists of n parameters
ParamSeqs(n) == [1..n -> Params]

\* how many parameters each of the three classes has
Arities == {l \in [1..3 -> 0..MaxParams] : l[1] + l[2] + l[3] <= MaxTotal}

\* the descriptor table of three classes with these parameter lists
TableOf(pa, pb, pc) ==
  [n \in Comps |-> IF n = Components[1] THEN pa ELSE IF n = Components[2] THEN pb ELSE pc]

\* _skip_type: str, int, float, bool, bytes, Any and protocols are not checked
SkipType(k) == k = "int"

\* Registrar._validate_bindings, one parameter: the message it appends to
\* errors, or none; a parameter with a default and a list without qualifier
\* are passed over, and so is a builtin scalar type
Unbound(n, p) ==
  /\ p.kind = "req"
  /\ ~SkipType(p.key)
  /\ p.key \notin Comps

\* a validation that stops at the first parameter it rejects
RECURSIVE ViolationsFirst(_, _, _)
ViolationsFirst(tb, i, j) ==
  IF i > Len(Components) THEN <<>>
  ELSE IF j > Len(tb[Components[i]]) THEN ViolationsFirst(tb, i + 1, 1)
  ELSE IF Unbound(Components[i], tb[Components[i]][j])
  THEN <<[comp |-> Components[i], key |-> tb[Components[i]][j].key]>>
  ELSE ViolationsFirst(tb, i, j + 1)

\* Registrar._validate_bindings: errors, in the order of the two loops
RECURSIVE Violations(_, _, _)
Violations(tb, i, j) ==
  IF i > Len(Components) THEN <<>>
  ELSE IF j > Len(tb[Components[i]]) THEN Violations(tb, i + 1, 1)
  ELSE (IF Unbound(Components[i], tb[Components[i]][j])
        THEN <<[comp |-> Components[i], key |-> tb[Components[i]][j].key]>>
        ELSE <<>>) \o Violations(tb, i, j + 1)

\* _compile_argplan_static / _dependency_keys_for_static: every parameter but
\* a list gives its key, a list gives the components of its element type
DependencyKeys(ps) ==
  LET ks == [i \in 1..Len(ps) |-> ps[i]]
      plain == SelectSeq(ks, LAMBDA p : p.kind # "list" \/ p.key \in Comps)
  IN [i \in 1..Len(plain) |-> plain[i].key]

\* _build_resolution_graph: component -> keys of its dependencies
Graph(tb) == [n \in Comps |-> DependencyKeys(tb[n])]

\* graph.get(n, ())
Edges(g, n) == IF n \in DOMAIN g THEN g[n] ELSE <<>>

\* _find_cycle.visit and its loop over the successors; st is temp, perm,
\* stack and the cycle found (<<>>: None)
RECURSIVE Visit(_, _, _)
RECURSIVE VisitAll(_, _, _, _)
Visit(g, n, st) ==
  IF n \in st.perm THEN st
  ELSE IF n \in st.temp
  THEN LET idx == CHOOSE i \in 1..Len(st.stack) : st.stack[i] = n
       IN [st EXCEPT !.cyc = Append(SubSeq(st.stack, idx, Len(st.stack)), n)]
  ELSE LET s1 == [st EXCEPT !.temp = @ \cup {n}, !.stack = Append(@, n)]
           s2 == VisitAll(g, Edges(g, n), 1, s1)
       IN IF s2.cyc # <<>> THEN s2
          ELSE [s2 EXCEPT !.stack = Front(@), !.temp = @ \ {n}, !.perm = @ \cup {n}]
VisitAll(g, ds, i, st) ==
  IF i > Len(ds) THEN st
  ELSE LET s1 == Visit(g, ds[i], st)
       IN IF s1.cyc # <<>> THEN s1 ELSE VisitAll(g, ds, i + 1, s1)

\* a search that starts from the first node only
FindCycleFromFirst(g) ==
  Visit(g, Components[1], [temp |-> {}, perm |-> {}, stack |-> <<>>, cyc |-> <<>>]).cyc

\* a search that finds nothing
FindCycleNever(g) == <<>>

\* _find_cycle: for node in graph.keys(): c = visit(node)
FindCycle(g) ==
  VisitAll(g, Components, 1, [temp |-> {}, perm |-> {}, stack |-> <<>>, cyc |-> <<>>]).cyc

\* inspect.getmembers: the members sorted by name; a method is written as
\* the rank of its name in alphabetical order
RECURSIVE SortedByName(_)
SortedByName(S) ==
  IF S = {} THEN <<>>
  ELSE LET m == CHOOSE x \in S : \A y \in S : x <= y
       IN <<m>> \o SortedByName(S \ {m})

\* the configure methods a class can declare, in every order of declaration
Declarations ==
  {d \in UNION {[1..n -> 1..MaxMethods] : n \in 0..MaxMethods} :
     \A i, j \in 1..Len(d) : i # j => d[i] # d[j]}

\* _iter_configure_methods: the configure methods in the order they are run
IterConfigureMethods(decl) == SortedByName(Range(decl))

\* init(): finalize validates the bindings, then _fail_fast_cycle_check
Build ==
  /\ phase = "new"
  /\ LET errs == Violations(table, 1, 1)
         cyc == FindCycle(Graph(table))
     IN /\ errors' = errs
        /\ cycle' = IF errs = <<>> THEN cyc ELSE <<>>
        /\ phase' = IF errs # <<>> THEN "invalid" ELSE IF cyc # <<>> THEN "cycle" ELSE "ready"
  /\ UNCHANGED <<corevars, avars, hvars, rvars, table, made, hooks>>

\* get(k) on the container init() returned, its dependencies being built:
\* _build_class calls the class and runs its configure methods; a parameter
\* whose key has no provider makes _resolve_args raise before that
BuildClass(k, decl) ==
  /\ phase = "ready" /\ k \in Comps \ made
  /\ \A i \in 1..Len(table[k]) :
       table[k][i].kind # "list" => table[k][i].key \in made
  /\ made' = made \cup {k}
  /\ hooks' = [hooks EXCEPT ![k] = [declared |-> decl, ran |-> IterConfigureMethods(decl)]]
  /\ UNCHANGED <<corevars, avars, hvars, rvars, table, phase, errors, cycle>>

\* no application is being built: the other specifications
BuildIdle ==
  /\ table = [n \in Comps |-> <<>>] /\ phase = "off"
  /\ errors = <<>> /\ cycle = <<>> /\ made = {}
  /\ hooks = [n \in Comps |-> [declared |-> <<>>, ran |-> <<>>]]

\* ---------------------------------------------- method interception (aop.py)
\* What an interceptor's invoke(ctx, call_next) does:
\*   "plain"    def invoke: its before part, r = call_next(ctx), its after
\*              part, return r
\*   "awaiting" async def invoke: the same, with r awaited when it is awaitable
\*   "pending"  def invoke that returns a coroutine which, once awaited,
\*              returns call_next(ctx)
\*   "retry"    def invoke: its before part, call_next(ctx) twice, its after
\*              part, return the second result
InterceptorKinds == {"plain", "awaiting", "pending", "retry"}

\* the entries of a call's trace
Before(i) == <<i, "before">>
After(i) == <<i, "after">>
MethodRan == <<0, "M">>

\* A value is written as a number: 0 is a completed value, k > 0 is a
\* coroutine that has not started: that of interceptor k, or that of the
\* method itself for k = Len(its) + 1.
Completed == 0

\* call_next(ctx) when the shared counter idx stands before position i: the
\* call of interceptor i, or of the method once i is past the last
\* interceptor; `idx` in the result is where the counter stands afterwards.
\* AwaitFrom(k): what awaiting coroutine k runs, the counter standing at i.
RECURSIVE CallNext(_, _, _)
RECURSIVE AwaitFrom(_, _, _, _)
CallNext(its, i, async) ==
  IF i > Len(its)
  THEN (IF async THEN [trace |-> <<>>, res |-> i, idx |-> i]
        ELSE [trace |-> <<MethodRan>>, res |-> Completed, idx |-> i])
  ELSE IF its[i] = "plain"
  THEN LET r == CallNext(its, i + 1, async)
       IN [trace |-> <<Before(i)>> \o r.trace \o <<After(i)>>, res |-> r.res, idx |-> r.idx]
  ELSE IF its[i] = "retry"
  THEN LET r1 == CallNext(its, i + 1, async)
           r2 == CallNext(its, r1.idx, async)
       IN [trace |-> <<Before(i)>> \o r1.trace \o r2.trace \o <<After(i)>>,
           res |-> r2.res, idx |-> r2.idx]
  ELSE [trace |-> <<>>, res |-> i, idx |-> i + 1]
AwaitFrom(its, k, i, async) ==
  IF k > Len(its) THEN [trace |-> <<MethodRan>>, res |-> Completed, idx |-> i]
  ELSE LET r == CallNext(its, i, async)
       IN IF its[k] = "pending" THEN r
          ELSE LET a == IF r.res # Completed THEN AwaitFrom(its, r.res, r.idx, async)
                        ELSE [trace |-> <<>>, res |-> Completed, idx |-> r.idx]
               IN [trace |-> <<Before(k)>> \o r.trace \o a.trace \o <<After(k)>>,
                   res |-> a.res, idx |-> a.idx]

\* a dispatch that calls the method and no interceptor
DispatchWithoutChain(its, async) == CallNext(its, Len(its) + 1, async)

\* dispatch_method(interceptors, ctx): call_next(ctx) with idx = 0
DispatchMethod(its, async) == CallNext(its, 1, async)

\* what the call of a wrapped method gave its caller
CallResult(tr, out, awaited) == [trace |-> tr, out |-> out, name |-> "M", awaited |-> awaited]

\* a synchronous wrapper that hands a pending value to its caller
SwUnchecked(its) ==
  LET r == DispatchMethod(its, FALSE)
  IN CallResult(r.trace, IF r.res # Completed THEN "coroutine" ELSE "value", FALSE)

\* _build_wrapped.sw: the wrapper of a synchronous method
Sw(its) ==
  LET r == DispatchMethod(its, FALSE)
  IN CallResult(r.trace, IF r.res # Completed THEN "RuntimeError" ELSE "value", FALSE)

\* _build_wrapped.aw: the wrapper of an asynchronous method, awaited by the caller
Aw(its) ==
  LET r == DispatchMethod(its, TRUE)
  IN IF r.res # Completed
     THEN LET a == AwaitFrom(its, r.res, r.idx, TRUE)
          IN CallResult(r.trace \o a.trace,
                        IF a.res # Completed THEN "coroutine" ELSE "value", TRUE)
     ELSE CallResult(r.trace, "value", FALSE)

\* UnifiedComponentProxy._scope_signature
ScopeSignature(key, sc, id) ==
  IF key = "none" THEN <<>>
  ELSE IF sc = SCOPE_SINGLETON THEN <<>>
  ELSE <<id>>

\* _build_wrapped: the cache entry; `under` is the request id that was active
\* when container.get resolved the interceptors and request_key was taken
BuildWrapped(key, sc, id) ==
  LET sig == ScopeSignature(key, sc, id)
  IN [sig |-> sig, under |-> id, request_key |-> IF sig # <<>> THEN sig[1] ELSE None]

\* PicoContainer._maybe_wrap_with_aspects: the container wraps the component
\* it has built; get builds a request-scoped component only under an active
\* request id (for_scope raises ScopeError without one)
MaybeWrapWithAspects ==
  /\ component_key = "absent"
  /\ md_scope = SCOPE_REQUEST => rid # None
  /\ component_key' = "none"
  /\ UNCHANGED <<corevars, bvars, hvars, rvars, icpts, is_async, md_scope, rid, wcache, last, ncalls>>

\* UnifiedComponentProxy(container=c, target=obj, component_key=K)
ProxyWithKey ==
  /\ component_key = "absent"
  /\ component_key' = "K"
  /\ UNCHANGED <<corevars, bvars, hvars, rvars, icpts, is_async, md_scope, rid, wcache, last, ncalls>>

\* with container.scope("request", r): entering the block
EnterScope(r) ==
  /\ rid = None
  /\ rid' = r
  /\ UNCHANGED <<corevars, bvars, hvars, rvars, icpts, is_async, md_scope, component_key, wcache, last, ncalls>>

\* leaving the block
LeaveScope ==
  /\ rid # None
  /\ rid' = None
  /\ UNCHANGED <<corevars, bvars, hvars, rvars, icpts, is_async, md_scope, component_key, wcache, last, ncalls>>

\* proxy.M(), awaited if M is asynchronous: __getattr__ gives the cached
\* wrapper or builds one, and the caller calls it
CallMethod ==
  /\ component_key # "absent" /\ ncalls < MaxCalls
  /\ LET cur_sig == ScopeSignature(component_key, md_scope, rid)
         reuse == wcache # <<>> /\ wcache[1].sig = cur_sig
         entry == IF reuse THEN wcache[1] ELSE BuildWrapped(component_key, md_scope, rid)
         res == IF is_async THEN Aw(icpts) ELSE Sw(icpts)
     IN /\ wcache' = <<entry>>
        /\ last' = <<[trace |-> res.trace, out |-> res.out, name |-> res.name,
                      awaited |-> res.awaited, rebuilt |-> ~reuse,
                      prev |-> IF wcache = <<>> THEN <<>> ELSE <<wcache[1].under>>,
                      under |-> entry.under, request_key |-> entry.request_key,
                      at |-> rid]>>
  /\ ncalls' = ncalls + 1
  /\ UNCHANGED <<corevars, bvars, hvars, rvars, icpts, is_async, md_scope, component_key, rid>>

\* ------------------------------------------------- Registrar (api.py)
\* What a module declares about one key K, a type:
\*   "regular"  a component or @provides method whose key is K
\*   "subtype"  a component whose class is a subclass of K, under its own key
\*   "fallback" a class declared with on_missing_selector = K
\* gate is the outcome of _enabled_by_condition for the declaration; plen is
\* len(str(pico_name)); prio is on_missing_priority.
Declared ==
  [kind : {"regular"}, gate : BOOLEAN, primary : BOOLEAN, plen : 1..2, prio : {0}]
    \cup [kind : {"subtype"}, gate : BOOLEAN, primary : {FALSE}, plen : {1}, prio : {0}]
    \cup [kind : {"fallback"}, gate : BOOLEAN, primary : {FALSE}, plen : {1}, prio : 0..1]

\* register_module over the members decls[1..n]: a class with on_missing goes
\* to _on_missing and nothing else is looked at; the others are queued when
\* _enabled_by_condition holds. The result is the indexes kept, in order.
Scanned(d, kinds) ==
  SelectSeq([i \in 1..Len(d) |-> i],
            LAMBDA i : d[i].kind \in kinds /\ (d[i].kind = "fallback" \/ d[i].gate))

\* select_and_bind.rank: (is_present, pref_len, is_primary); is_present is 1
\* only for a @configured class whose prefix exists, which none of these is
Rank(c) == <<0, c.plen, IF c.primary THEN 1 ELSE 0>>

\* tuple comparison
Less(x, y) ==
  \E i \in 1..Len(x) : x[i] < y[i] /\ \A j \in 1..(i - 1) : x[j] = y[j]

\* select_and_bind: sorted(lst, key=rank, reverse=True)[0], the first of the
\* candidates of highest rank (the sort is stable)
Chosen(d, q) ==
  q[CHOOSE i \in 1..Len(q) :
      /\ \A j \in 1..Len(q) : ~Less(Rank(d[q[i]]), Rank(d[q[j]]))
      /\ \A j \in 1..(i - 1) : Less(Rank(d[q[j]]), Rank(d[q[i]]))]

\* a test that finds no descriptor
CanBeSelectedForNever(d, meta) == FALSE

\* _can_be_selected_for(_metadata, K): some descriptor's type is a subclass of K
CanBeSelectedFor(d, meta) == \E i \in meta : d[i].kind \in {"regular", "subtype"}

\* sorted(_on_missing, key=lambda x: -x[0]): by priority, highest first, stable
RECURSIVE ByPriority(_, _)
ByPriority(d, om) ==
  IF om = <<>> THEN <<>>
  ELSE LET i == CHOOSE i \in 1..Len(om) :
                  /\ \A j \in 1..Len(om) : d[om[j]].prio <= d[om[i]].prio
                  /\ \A j \in 1..(i - 1) : d[om[j]].prio < d[om[i]].prio
       IN <<om[i]>> \o ByPriority(d, SubSeq(om, 1, i - 1) \o SubSeq(om, i + 1, Len(om)))

\* the loop of finalize over the fallbacks: st is the bound declaration and
\* the descriptors
RECURSIVE OnMissing(_, _, _)
OnMissing(d, om, st) ==
  IF om = <<>> THEN st
  ELSE IF st.bound # 0 \/ CanBeSelectedFor(d, st.meta) THEN OnMissing(d, Tail(om), st)
  ELSE OnMissing(d, Tail(om), [bound |-> om[1], meta |-> st.meta \cup {om[1]}])

\* init(): registrar.register_module(m) for the module
RegisterModule ==
  /\ rphase = "new"
  /\ queued' = Scanned(decls, {"regular"})
  /\ rmeta' = {}
  /\ onmiss' = Scanned(decls, {"fallback"})
  /\ rphase' = "scanned"
  /\ UNCHANGED <<corevars, bvars, avars, hvars, decls, rbound, mscope>>

\* init(): registrar.finalize(overrides): select_and_bind, then the fallbacks
Finalize ==
  /\ rphase = "scanned"
  /\ LET sub == Range(Scanned(decls, {"subtype"}))
         sel == IF queued = <<>> THEN 0 ELSE Chosen(decls, queued)
         st == OnMissing(decls, ByPriority(decls, onmiss),
                         [bound |-> sel,
                          meta |-> sub \cup (IF sel = 0 THEN {} ELSE {sel})])
     IN rbound' = st.bound /\ rmeta' = st.meta
  /\ rphase' = "done"
  /\ UNCHANGED <<corevars, bvars, avars, hvars, decls, queued, onmiss, mscope>>

\* _find_md_for_type(t) for a class that is a component: its own descriptor
\* _infer_narrower_scope: the scope of the first parameter whose descriptor
\* is not a singleton, or "none"
RECURSIVE InferNarrowerScope(_, _, _)
InferNarrowerScope(ps, i, sc) ==
  IF i > Len(ps) THEN "none"
  ELSE IF ps[i].key \in Comps /\ sc[ps[i].key] # SCOPE_SINGLETON THEN sc[ps[i].key]
  ELSE InferNarrowerScope(ps, i + 1, sc)

\* _promote_scopes: one pass over the descriptors in the order of the table
RECURSIVE PromoteFrom(_, _, _)
PromoteFrom(tb, i, sc) ==
  IF i > Len(Components) THEN sc
  ELSE LET k == Components[i]
           ns == IF sc[k] = SCOPE_SINGLETON THEN InferNarrowerScope(tb[k], 1, sc) ELSE "none"
       IN PromoteFrom(tb, i + 1, IF ns # "none" THEN [sc EXCEPT ![k] = ns] ELSE sc)

\* finalize: select_and_bind has filled the table; _promote_scopes
PromoteScopes ==
  /\ rphase = "bound"
  /\ mscope' = PromoteFrom(table, 1, mscope)
  /\ rphase' = "promoted"
  /\ UNCHANGED <<corevars, avars, hvars, bvars, decls, queued, onmiss, rbound, rmeta>>

\* no module is being registered: the other specifications
RegIdle ==
  /\ decls = <<>> /\ queued = <<>> /\ onmiss = <<>> /\ rbound = 0 /\ rmeta = {}
  /\ rphase = "off" /\ mscope = [n \in Comps |-> SCOPE_SINGLETON]

\* no intercepted method is in use: the other specifications
AopIdle ==
  /\ icpts = <<>> /\ is_async = FALSE /\ md_scope = SCOPE_SINGLETON
  /\ component_key = "absent" /\ rid = None /\ wcache = <<>> /\ last = <<>> /\ ncalls = 0

ExtrasIdle == BuildIdle /\ AopIdle /\ HasIdle /\ RegIdle

\* ------------------------------------------------ UnifiedComponentProxy
\* The accessors of one lazy proxy: s1 and s2 are threads that read an
\* attribute (_get_real_object); a1 and a2 are tasks of one event loop that
\* await _async_init_if_needed and then read the target.  The RLock belongs
\* to a thread: the two tasks share theirs.
Accessors == {"s1", "s2", "a1", "a2"}
Tasks == {"a1", "a2"}
ThreadOf(a) == IF a \in Tasks THEN "loop" ELSE a
Failed == 0 - 2

\* a lock that excludes nobody
CanAcquireAlways(a) == TRUE

\* lock.acquire() returns: the RLock is free or held by the caller's thread
CanAcquire(a) == plock \in {"free", ThreadOf(a)}

\* a task runs only while the event loop thread runs it; a thread runs freely
Runs(a) == a \in Tasks => loop = a

AccessorStep(a, pc, tmp, obs) ==
  /\ apc' = [apc EXCEPT ![a] = pc]
  /\ atmp' = [atmp EXCEPT ![a] = tmp]
  /\ aobs' = [aobs EXCEPT ![a] = obs]

\* the event loop starts or resumes a task
Schedule(a) ==
  /\ a \in Tasks /\ loop = "none" /\ apc[a] \in {"start", "awaiting"}
  /\ loop' = a
  /\ IF apc[a] = "awaiting"
     THEN AccessorStep(a, "read", atmp[a], aobs[a]) /\ pconf' = TRUE
     ELSE AccessorStep(a, "ainit", atmp[a], aobs[a]) /\ pconf' = pconf
  /\ UNCHANGED <<cvars, svars, evars, ptarget, plock, phook, pbuilds, pfails>>

\* a thread reads an attribute of the proxy
Access(a) ==
  /\ a \notin Tasks /\ apc[a] = "start"
  /\ AccessorStep(a, "read", atmp[a], aobs[a])
  /\ UNCHANGED <<cvars, svars, evars, ptarget, plock, phook, pbuilds, pfails, pconf, loop>>

\* _get_real_object, the check before the lock: return _target if it is set
FastPath(a) ==
  /\ Runs(a) /\ apc[a] = "read"
  /\ IF ptarget # None
     THEN /\ AccessorStep(a, "done", atmp[a], ptarget)
          /\ loop' = IF a \in Tasks THEN "none" ELSE loop
     ELSE AccessorStep(a, "lock", atmp[a], aobs[a]) /\ loop' = loop
  /\ UNCHANGED <<cvars, svars, evars, ptarget, plock, phook, pbuilds, pfails, pconf>>

\* _get_real_object inside the lock: the second check, then creator();
\* a creator that raises or returns None ends the access with an exception
SyncCreate(a) ==
  /\ Runs(a) /\ apc[a] = "lock" /\ CanAcquire(a)
  /\ IF ptarget # None
     THEN /\ AccessorStep(a, "done", atmp[a], ptarget)
          /\ loop' = IF a \in Tasks THEN "none" ELSE loop
          /\ UNCHANGED <<plock, pbuilds, pfails>>
     ELSE /\ pbuilds' = pbuilds + 1
          /\ \E res \in {"ok", "raise", "none"} :
               IF res = "ok"
               THEN /\ AccessorStep(a, "configure", pbuilds + 1, aobs[a])
                    /\ plock' = ThreadOf(a)
                    /\ UNCHANGED <<pfails, loop>>
               ELSE /\ AccessorStep(a, "done", atmp[a], Failed)
                    /\ pfails' = pfails + 1
                    /\ loop' = IF a \in Tasks THEN "none" ELSE loop
                    /\ plock' = plock
  /\ UNCHANGED <<cvars, svars, evars, ptarget, phook, pconf>>

\* _get_real_object, still inside the lock: _run_configure_methods(tgt); an
\* awaitable result raises AsyncResolutionError; otherwise _target is set
SyncConfigure(a) ==
  /\ Runs(a) /\ apc[a] = "configure"
  /\ plock' = "free"
  /\ loop' = IF a \in Tasks THEN "none" ELSE loop
  /\ IF phook = "async"
     THEN /\ AccessorStep(a, "done", None, Failed)
          /\ pfails' = pfails + 1
          /\ UNCHANGED <<ptarget, pconf>>
     ELSE /\ AccessorStep(a, "done", None, atmp[a])
          /\ ptarget' = atmp[a]
          /\ pconf' = TRUE
          /\ pfails' = pfails
  /\ UNCHANGED <<cvars, svars, evars, phook, pbuilds>>

\* _async_init_if_needed up to the end of the with block: the check before
\* the lock, the check inside it, creator(), _target = tgt
AsyncCreate(a) ==
  /\ Runs(a) /\ apc[a] = "ainit"
  /\ IF ptarget # None
     THEN /\ AccessorStep(a, "read", atmp[a], aobs[a])
          /\ UNCHANGED <<ptarget, pbuilds, pfails, loop>>
     ELSE /\ CanAcquire(a)
          /\ pbuilds' = pbuilds + 1
          /\ \E res \in {"ok", "raise", "none"} :
               CASE res = "ok" ->
                      /\ ptarget' = pbuilds + 1
                      /\ AccessorStep(a, "aconfigure", pbuilds + 1, aobs[a])
                      /\ UNCHANGED <<pfails, loop>>
                 [] res = "none" ->
                      /\ ptarget' = None
                      /\ AccessorStep(a, "aconfigure", None, aobs[a])
                      /\ pfails' = pfails + 1
                      /\ loop' = loop
                 [] OTHER ->
                      /\ ptarget' = ptarget
                      /\ AccessorStep(a, "done", atmp[a], Failed)
                      /\ pfails' = pfails + 1
                      /\ loop' = "none"
  /\ UNCHANGED <<cvars, svars, evars, plock, phook, pconf>>

\* _async_init_if_needed after the with block: _run_configure_methods(tgt),
\* awaited when it is awaitable
AsyncConfigure(a) ==
  /\ Runs(a) /\ apc[a] = "aconfigure"
  /\ IF phook = "async"
     THEN /\ AccessorStep(a, "awaiting", atmp[a], aobs[a])
          /\ loop' = "none"
          /\ pconf' = pconf
     ELSE /\ AccessorStep(a, "read", atmp[a], aobs[a])
          /\ loop' = loop
          /\ pconf' = (pconf \/ atmp[a] # None)
  /\ UNCHANGED <<cvars, svars, evars, ptarget, plock, phook, pbuilds, pfails>>

InitProxy ==
  /\ procs = {} /\ focus = {}
  /\ singleton = EmptyBucket /\ by_scope = <<>> /\ heap = <<>>
  /\ calls = [k \in Keys |-> 0]
  /\ stack = [t \in Procs |-> <<>>] /\ chain = [t \in Procs |-> <<>>]
  /\ sid = [t \in Procs |-> <<>>] /\ hist = [t \in Procs |-> <<>>]
  /\ ops = 0 /\ touched = {}
  /\ NoObservers
  /\ ptarget = None /\ plock = "free"
  /\ phook \in {"absent", "sync", "async"}
  /\ pbuilds = 0 /\ pfails = 0 /\ pconf = FALSE /\ loop = "none"
  /\ apc = [a \in Accessors |-> "start"]
  /\ atmp = [a \in Accessors |-> None]
  /\ aobs = [a \in Accessors |-> None]
  /\ ScopeIdle /\ ExtrasIdle

NextProxy ==
  \/ \E a \in Accessors : Schedule(a)
  \/ \E a \in Accessors : Access(a)
  \/ \E a \in Accessors : FastPath(a)
  \/ \E a \in Accessors : SyncCreate(a)
  \/ \E a \in Accessors : SyncConfigure(a)
  \/ \E a \in Accessors : AsyncCreate(a)
  \/ \E a \in Accessors : AsyncConfigure(a)

\* one lazy proxy and its accessors
SpecProxy == InitProxy /\ [][NextProxy]_vars

\* ------------------------------------------------------------ specification
\* the container and its callers before the first call
Fresh(ps) ==
  /\ procs = ps
  /\ focus \in Roots
  /\ singleton = EmptyBucket
  /\ by_scope = <<>>
  /\ heap = <<>>
  /\ calls = [k \in Keys |-> 0]
  /\ stack = [t \in Procs |-> <<>>]
  /\ chain = [t \in Procs |-> <<>>]
  /\ sid = [t \in Procs |-> <<>>]
  /\ hist = [t \in Procs |-> <<>>]
  /\ ops = 0
  /\ touched = {}

\* the proxy of SpecProxy, unused in the container's specifications
ProxyIdle ==
  /\ ptarget = None /\ plock = "free" /\ phook = "absent"
  /\ pbuilds = 0 /\ pfails = 0 /\ pconf = FALSE /\ loop = "none"
  /\ apc = [a \in Accessors |-> "off"]
  /\ atmp = [a \in Accessors |-> None]
  /\ aobs = [a \in Accessors |-> None]

InitWith(ps) == Fresh(ps) /\ NoObservers

Init == InitWith(Procs) /\ ProxyIdle /\ ScopeIdle /\ ExtrasIdle
InitSeq == InitWith({"t1"}) /\ ProxyIdle /\ ScopeIdle /\ ExtrasIdle

\* what an observer's callbacks do: return, or raise
ObserverKinds == {"ok", "raise"}

\* init(observers = [o1, o2]): a container with two observers, one call stack
InitApp ==
  /\ Fresh({"t1"}) /\ ProxyIdle /\ ScopeIdle /\ ExtrasIdle
  /\ observers \in [1..2 -> ObserverKinds]
  /\ notified = [i \in 1..2 |-> 0] /\ events = 0
  /\ binding = [k \in Keys |-> 1]

\* ScopedCaches.__init__, ScopeManager.__init__, PicoContainer.__init__
InitScope ==
  /\ procs = {} /\ focus = {}
  /\ singleton = EmptyBucket /\ by_scope = <<>> /\ heap = <<>>
  /\ calls = [k \in Keys |-> 0]
  /\ stack = [t \in Procs |-> <<>>] /\ chain = [t \in Procs |-> <<>>]
  /\ sid = [t \in Procs |-> <<>>] /\ hist = [t \in Procs |-> <<>>]
  /\ ops = 0 /\ touched = {}
  /\ NoObservers
  /\ ProxyIdle
  /\ cur = [t \in Procs |-> None] /\ toks = [t \in Procs |-> <<>>]
  /\ closed = [t \in Procs |-> None] /\ acts = 0
  /\ bmap = <<>> /\ bstore = <<<<>>>> /\ popped = {}
  /\ spc = [t \in Procs |-> "idle"] /\ sbk = [t \in Procs |-> None]
  /\ okind = <<>> /\ cleaned = <<>> /\ shut = "no" /\ registered = TRUE
  /\ ExtrasIdle

NextScope ==
  \/ \E t \in Procs, r \in RIDs : ScopeEnter(t, r)
  \/ \E t \in Procs : ScopeExit(t)
  \/ \E t \in Procs : ForSingleton(t)
  \/ \E t \in Procs : ForRequest(t)
  \/ \E t \in Procs : ForRequestCreate(t)
  \/ \E t \in Procs, h \in Hooks : Put(t, h)
  \/ \E t \in Procs, r \in RIDs : CleanupScope(t, r)
  \/ \E t \in Procs : Shutdown(t)

\* the scopes, the caches and shutdown, two call stacks
SpecScope == InitScope /\ [][NextScope]_vars

Next ==
  \/ \E t \in Procs, k \in AllKeys : StartGet(t, k)
  \/ \E t \in Procs, k \in AllKeys : StartAget(t, k)
  \/ \E t \in Procs : Resolve(t)
  \/ \E t \in Procs : ResolveDep(t)
  \/ \E t \in Procs : Construct(t)
  \/ \E t \in Procs : Finish(t)
  \/ \E t \in Procs : CreatorDep(t)
  \/ \E t \in Procs : Await(t)
  \/ \E t \in Procs : Cancel(t)
  \/ \E t \in Procs : Touch(t)
  \/ \E t \in Procs, r \in RIDs : Activate(t, r)
  \/ \E t \in Procs : Deactivate(t)

\* two call stacks on one container
Spec == Init /\ [][Next]_vars

\* one call stack alone
SpecSeq == InitSeq /\ [][Next]_vars

\* an application's classes have been scanned; init() has not run
InitBuild ==
  /\ procs = {} /\ focus = {}
  /\ singleton = EmptyBucket /\ by_scope = <<>> /\ heap = <<>>
  /\ calls = [k \in Keys |-> 0]
  /\ stack = [t \in Procs |-> <<>>] /\ chain = [t \in Procs |-> <<>>]
  /\ sid = [t \in Procs |-> <<>>] /\ hist = [t \in Procs |-> <<>>]
  /\ ops = 0 /\ touched = {}
  /\ NoObservers /\ ProxyIdle /\ ScopeIdle /\ AopIdle /\ HasIdle /\ RegIdle
  /\ \E l \in Arities :
       \E pa \in ParamSeqs(l[1]), pb \in ParamSeqs(l[2]), pc \in ParamSeqs(l[3]) :
         table = TableOf(pa, pb, pc)
  /\ phase = "new"
  /\ errors = <<>> /\ cycle = <<>> /\ made = {}
  /\ hooks = [n \in Comps |-> [declared |-> <<>>, ran |-> <<>>]]

\* classes without configure methods
NextBuild ==
  \/ Build
  \/ \E k \in Comps : BuildClass(k, <<>>)

\* init() on a descriptor table, then the construction of components
SpecBuild == InitBuild /\ [][NextBuild]_vars

\* init() has returned the container of three classes without constructor
\* parameters
InitConfigure ==
  /\ procs = {} /\ focus = {}
  /\ singleton = EmptyBucket /\ by_scope = <<>> /\ heap = <<>>
  /\ calls = [k \in Keys |-> 0]
  /\ stack = [t \in Procs |-> <<>>] /\ chain = [t \in Procs |-> <<>>]
  /\ sid = [t \in Procs |-> <<>>] /\ hist = [t \in Procs |-> <<>>]
  /\ ops = 0 /\ touched = {}
  /\ NoObservers /\ ProxyIdle /\ ScopeIdle /\ AopIdle /\ HasIdle /\ RegIdle
  /\ table = [n \in Comps |-> <<>>] /\ phase = "ready"
  /\ errors = <<>> /\ cycle = <<>> /\ made = {}
  /\ hooks = [n \in Comps |-> [declared |-> <<>>, ran |-> <<>>]]

\* classes that declare configure methods, in any order
NextConfigure == \E k \in Comps, decl \in Declarations : BuildClass(k, decl)

\* the construction of components that have configure methods
SpecConfigure == InitConfigure /\ [][NextConfigure]_vars

\* a component whose method M declares interceptors has been built
InitAop ==
  /\ procs = {} /\ focus = {}
  /\ singleton = EmptyBucket /\ by_scope = <<>> /\ heap = <<>>
  /\ calls = [k \in Keys |-> 0]
  /\ stack = [t \in Procs |-> <<>>] /\ chain = [t \in Procs |-> <<>>]
  /\ sid = [t \in Procs |-> <<>>] /\ hist = [t \in Procs |-> <<>>]
  /\ ops = 0 /\ touched = {}
  /\ NoObservers /\ ProxyIdle /\ ScopeIdle /\ BuildIdle /\ HasIdle /\ RegIdle
  /\ \E n \in 1..MaxInterceptors : icpts \in [1..n -> InterceptorKinds]
  /\ is_async \in BOOLEAN
  /\ md_scope \in {SCOPE_SINGLETON, SCOPE_REQUEST}
  /\ component_key = "absent" /\ rid = None /\ wcache = <<>> /\ last = <<>> /\ ncalls = 0

NextAop ==
  \/ MaybeWrapWithAspects
  \/ ProxyWithKey
  \/ \E r \in RIDs : EnterScope(r)
  \/ LeaveScope
  \/ CallMethod

\* calls of an intercepted method through its proxy, inside and outside
\* request blocks
SpecAop == InitAop /\ [][NextAop]_vars

\* a module has been imported; init() has not run
InitReg ==
  /\ procs = {} /\ focus = {}
  /\ singleton = EmptyBucket /\ by_scope = <<>> /\ heap = <<>>
  /\ calls = [k \in Keys |-> 0]
  /\ stack = [t \in Procs |-> <<>>] /\ chain = [t \in Procs |-> <<>>]
  /\ sid = [t \in Procs |-> <<>>] /\ hist = [t \in Procs |-> <<>>]
  /\ ops = 0 /\ touched = {}
  /\ NoObservers /\ ProxyIdle /\ ScopeIdle /\ BuildIdle /\ AopIdle /\ HasIdle
  /\ \E n \in 1..MaxCands : decls \in [1..n -> Declared]
  /\ queued = <<>> /\ onmiss = <<>> /\ rbound = 0 /\ rmeta = {}
  /\ rphase = "new" /\ mscope = [n \in Comps |-> SCOPE_SINGLETON]

NextReg ==
  \/ RegisterModule
  \/ Finalize

\* init() on one module: registration, selection and fallbacks for a key
SpecReg == InitReg /\ [][NextReg]_vars

\* select_and_bind has filled the descriptor table of three components, each
\* with its declared scope
InitPromote ==
  /\ procs = {} /\ focus = {}
  /\ singleton = EmptyBucket /\ by_scope = <<>> /\ heap = <<>>
  /\ calls = [k \in Keys |-> 0]
  /\ stack = [t \in Procs |-> <<>>] /\ chain = [t \in Procs |-> <<>>]
  /\ sid = [t \in Procs |-> <<>>] /\ hist = [t \in Procs |-> <<>>]
  /\ ops = 0 /\ touched = {}
  /\ NoObservers /\ ProxyIdle /\ ScopeIdle /\ AopIdle /\ HasIdle
  /\ \E l \in Arities :
       \E pa \in ParamSeqs(l[1]), pb \in ParamSeqs(l[2]), pc \in ParamSeqs(l[3]) :
         table = TableOf(pa, pb, pc)
  /\ phase = "off" /\ errors = <<>> /\ cycle = <<>> /\ made = {}
  /\ hooks = [n \in Comps |-> [declared |-> <<>>, ran |-> <<>>]]
  /\ decls = <<>> /\ queued = <<>> /\ onmiss = <<>> /\ rbound = 0 /\ rmeta = {}
  /\ rphase = "bound"
  /\ mscope \in [Comps -> {SCOPE_SINGLETON, SCOPE_REQUEST}]

NextPromote == PromoteScopes

\* finalize's scope promotion on a descriptor table
SpecPromote == InitPromote /\ [][NextPromote]_vars

NextApp ==
  \/ Next
  \/ \E t \in Procs, k \in AllKeys : Bind(t, k)
  \/ \E t \in Procs, k \in AllKeys : Has(t, k)

\* one call stack, two observers, and an application that rebinds keys
SpecApp == InitApp /\ [][NextApp]_vars

\* ------------------------------------------------------------------ claims
\* the finished top-level calls, as <<call stack, index>>
Done == {<<t, i>> : t \in Procs, i \in 1..MaxOps} \cap
        UNION {{<<t, i>> : i \in 1..Len(hist[t])} : t \in Procs}
Out(d) == hist[d[1]][d[2]]
\* K is a bound key of singleton scope, asked for by its own key
IsSingleton(k) == k \in Bound /\ Scope(CanonicalKey(k)) = SCOPE_SINGLETON

\* keys reachable from k along constructor dependencies
RECURSIVE Reach(_, _)
Reach(ks, n) ==
  IF n = 0 THEN ks ELSE Reach(ks \cup UNION {Range(Deps(x)) : x \in ks}, n - 1)
DepsOf(k) == Reach(Range(Deps(k)), Cardinality(Keys))
OnCycle(k) == k \in Keys /\ k \in DepsOf(k)
CycleOf(k) == {x \in DepsOf(k) : k \in DepsOf(x)}

\* C1: for every singleton key, in every interleaving of concurrent get
\* calls, the provider runs exactly once and all the calls that return an
\* instance return the same one.
C1_ConcurrentSingletonOnce ==
  \A k \in Keys :
    (Scope(k) = SCOPE_SINGLETON /\
     \E d \in Done : Out(d).key = k /\ Out(d).ok /\ Out(d).val # None)
    => /\ calls[k] = 1
       /\ \A d, e \in Done :
            (Out(d).key = k /\ Out(e).key = k /\ Out(d).ok /\ Out(e).ok)
            => Out(d).val = Out(e).val

\* the i-th finished call of t1 is the first one made for its key
FirstFor(i) ==
  \A h \in 1..(i - 1) :
    CanonicalKey(hist["t1"][h].key) # CanonicalKey(hist["t1"][i].key)

\* C2, as claimed: two sequential get(K) calls for a singleton key, the
\* first calls made for K, return the same object and the provider has run
\* exactly once.
C2_SequentialSingletonOnce ==
  \A i, j \in 1..Len(hist["t1"]) :
    LET a == hist["t1"][i]
        b == hist["t1"][j]
    IN (i < j /\ FirstFor(i) /\ a.key = b.key /\ IsSingleton(a.key)
        /\ a.mode = "get" /\ b.mode = "get" /\ a.ok /\ b.ok)
       => a.val = b.val /\ calls[CanonicalKey(a.key)] = 1

\* C2, amended: when the provider returns an instance (anything but None),
\* the first get(K) made for a singleton key and every later get(K) of the
\* same thread return the same object, the later ones are served from the
\* singleton bucket and the provider has run exactly once.
C2_SequentialSingletonOnceNotNone ==
  \A i, j \in 1..Len(hist["t1"]) :
    LET a == hist["t1"][i]
        b == hist["t1"][j]
    IN (i < j /\ FirstFor(i) /\ a.key = b.key /\ IsSingleton(a.key)
        /\ a.mode = "get" /\ b.mode = "get" /\ a.ok /\ b.ok /\ a.val # None)
       => a.val = b.val /\ b.hit /\ calls[CanonicalKey(a.key)] = 1

\* C2 witness: get("S") has returned twice to the one call stack
C2_Witness ==
  /\ Len(hist["t1"]) >= 2
  /\ hist["t1"][1].key = "S" /\ hist["t1"][1].mode = "get" /\ hist["t1"][1].ok
  /\ hist["t1"][2].key = "S" /\ hist["t1"][2].mode = "get" /\ hist["t1"][2].ok

\* C3: for a request-scoped key, two calls under the same scope id return
\* the same instance and calls under different scope ids return different
\* instances.
C3_RequestScopeIdentity ==
  \A i, j \in 1..Len(hist["t1"]) :
    LET a == hist["t1"][i]
        b == hist["t1"][j]
    IN (i < j /\ a.key = b.key /\ a.key \in Bound
        /\ Scope(CanonicalKey(a.key)) = SCOPE_REQUEST /\ a.ok /\ b.ok)
       => /\ (a.sid = b.sid => a.val = b.val)
          /\ (a.sid # b.sid => a.val # b.val)

\* C3 witness: R was resolved twice under one id and once under the other
C3_Witness ==
  /\ Len(hist["t1"]) = 3
  /\ \A i \in 1..3 : hist["t1"][i].key = "R" /\ hist["t1"][i].ok
  /\ hist["t1"][1].sid = hist["t1"][2].sid
  /\ hist["t1"][3].sid # hist["t1"][1].sid

\* C4: every get of a prototype key runs the provider and returns an
\* instance no earlier call returned, and no bucket ever holds the key.
C4_PrototypeAlwaysFresh ==
  \A k \in AllKeys :
    Scope(CanonicalKey(k)) = SCOPE_PROTOTYPE
    => /\ singleton[k] = Missing
       /\ \A r \in DOMAIN by_scope : by_scope[r][k] = Missing
       /\ \A d \in Done : Out(d).key = k => Out(d).ok /\ ~Out(d).hit /\ Out(d).val # None
       /\ \A d, e \in Done :
            (Out(d).key = k /\ Out(e).key = k /\ d # e) => Out(d).val # Out(e).val
       /\ calls[CanonicalKey(k)] =
            Cardinality({d \in Done : Out(d).key = k})
            + Cardinality({t \in Procs : stack[t] # <<>> /\ stack[t][1].req = k
                                         /\ stack[t][1].pc # "resolve"})

\* C4 witness: P was resolved by both call stacks
C4_Witness ==
  /\ hist["t1"] # <<>> /\ hist["t1"][1].key = "P" /\ hist["t1"][1].ok
  /\ hist["t2"] # <<>> /\ hist["t2"][1].key = "P" /\ hist["t2"][1].ok

\* C5: the provider of a lazy key does not run before a caller accesses
\* the object get returned, and it runs at most once however two call
\* stacks interleave.
C5_LazyRunsOnceOnFirstAccess ==
  \A k \in Keys :
    Lazy(k) => /\ (calls[k] > 0 => \E p \in touched : heap[p].key = k)
               /\ calls[k] <= 1

\* C7: an entry stored in a live bucket is not replaced by another object.
C7_EntriesNeverOverwritten ==
  [][/\ \A k \in AllKeys : singleton[k] # Missing => singleton'[k] = singleton[k]
     /\ \A r \in DOMAIN by_scope \cap DOMAIN by_scope' : \A k \in AllKeys :
          by_scope[r][k] # Missing => by_scope'[r][k] = by_scope[r][k]]_vars

\* C8, as claimed: get of a key on a dependency cycle fails with a
\* CircularDependency error whose chain holds the keys of the cycle.
C8_CycleFailsWithCircularDependency ==
  \A d \in Done :
    (Out(d).mode = "get" /\ OnCycle(Out(d).key))
    => /\ ~Out(d).ok
       /\ Out(d).err[1].ty = "CircularDependencyError"
       /\ CycleOf(Out(d).key) \subseteq Range(Out(d).err[1].chain)

\* C8, amended: get of a key K on a dependency cycle fails with a
\* ComponentCreationError for K whose innermost cause is the
\* CircularDependencyError with the keys of the cycle in its chain, and no
\* resolution chain ever holds a key twice.
C8_CycleFailsWrapped ==
  /\ \A t \in Procs : \A i, j \in 1..Len(chain[t]) : i # j => chain[t][i] # chain[t][j]
  /\ \A d \in Done :
       (Out(d).mode = "get" /\ OnCycle(Out(d).key))
       => /\ ~Out(d).ok
          /\ Out(d).err[1].ty = "ComponentCreationError"
          /\ Out(d).err[1].key = Out(d).key
          /\ Last(Out(d).err).ty = "CircularDependencyError"
          /\ Last(Out(d).err).key = Out(d).key
          /\ CycleOf(Out(d).key) \subseteq Range(Last(Out(d).err).chain)

\* C8 witness: get("A") has failed on the cycle A -> B -> A
C8_Witness ==
  \E d \in Done : /\ Out(d).key = "A" /\ Out(d).mode = "get" /\ ~Out(d).ok
                   /\ Last(Out(d).err).chain = <<"A", "B">>

\* the component's own construction yields a pending value
OwnAsync(k) == k \in Keys /\ Body(k) = "ok" /\ Hook(k) = "async"
\* a constructor dependency of k does, and is not cached
DepAsync(k) ==
  k \in Keys /\ ~OwnAsync(k) /\ ~Lazy(k)
  /\ \E x \in DepsOf(k) : OwnAsync(x) /\ singleton[x] = Missing

\* C9, as claimed: a synchronous get whose construction needs an
\* asynchronous step, of the key or of a dependency, fails with
\* AsyncResolutionError.
C9_SyncGetFailsWithAsyncResolutionError ==
  \A d \in Done :
    (Out(d).mode = "get" /\ ~Out(d).hit /\ (OwnAsync(Out(d).key) \/ DepAsync(Out(d).key)))
    => ~Out(d).ok /\ Out(d).err[1].ty = "AsyncResolutionError"

\* C9, amended: a synchronous get(K) that has to construct K fails with
\* AsyncResolutionError for K when K's own provider yields the pending
\* value, and with a ComponentCreationError for K whose innermost cause is
\* that AsyncResolutionError when a dependency yields it; get never returns
\* a pending value and never waits.
C9_SyncGetFailsOnPending ==
  /\ \A t \in Procs : \A i \in 1..Len(stack[t]) :
       stack[t][i].mode = "get" => stack[t][i].pc # "await"
  /\ \A d \in Done :
       Out(d).mode = "get" =>
         /\ Out(d).ok => (~IsCoro(heap, Out(d).val) /\
                          (IsProxy(heap, Out(d).val) => ~IsCoro(heap, heap[Out(d).val].tgt)))
         /\ (~Out(d).hit /\ OwnAsync(Out(d).key)) => Out(d).err = AsyncError(Out(d).key)
         /\ (~Out(d).hit /\ DepAsync(Out(d).key)) =>
              /\ ~Out(d).ok
              /\ Out(d).err[1].ty = "ComponentCreationError" /\ Out(d).err[1].key = Out(d).key
              /\ Last(Out(d).err).ty = "AsyncResolutionError"
              /\ OwnAsync(Last(Out(d).err).key)

\* C9 witness: get("D") has failed because its dependency Y is asynchronous
C9_Witness ==
  \E d \in Done : /\ Out(d).key = "D" /\ Out(d).mode = "get" /\ ~Out(d).ok
                   /\ Last(Out(d).err) = Err("AsyncResolutionError", "Y")

\* C10: aget of a component whose only configure hook is asynchronous,
\* when the caller does not abandon it, succeeds, and the hook has run on
\* the returned instance.
C10_AgetRunsAsyncHook ==
  \A d \in Done :
    (Out(d).mode = "aget" /\ OwnAsync(Out(d).key)
     /\ Out(d).err # CancelledError(Out(d).key))
    => /\ Out(d).ok /\ Out(d).val # None
       /\ LET v == Out(d).val
              o == IF IsProxy(heap, v) THEN heap[v].tgt ELSE v
          IN o # None /\ heap[o].cls = "inst" /\ heap[o].conf

FailsNow(t) == Len(hist'[t]) = Len(hist[t]) + 1 /\ ~Last(hist'[t]).ok

\* v is fit to be cached: None, or an instance (or a proxy whose target is
\* one) that is built and has had its configure hooks run
Complete(h, v) ==
  LET o == IF IsProxy(h, v) THEN h[v].tgt ELSE v
  IN v = None \/ (o # None /\ h[o].cls = "inst" /\ (Hook(h[o].key) # "none" => h[o].conf))

\* C11: a get/aget that fails, for whatever reason, or an aget abandoned
\* while it awaits the construction, changes no bucket; whatever is put into
\* a bucket is a fully constructed and configured object.
C11_NoCommitBeforeCompletion ==
  [][/\ \A t \in Procs : FailsNow(t) => (singleton' = singleton /\ by_scope' = by_scope)
     /\ \A k \in AllKeys :
          /\ singleton'[k] # singleton[k] => Complete(heap', singleton'[k])
          /\ \A r \in DOMAIN by_scope' :
               (r \notin DOMAIN by_scope \/ by_scope'[r][k] # by_scope[r][k])
               => by_scope'[r][k] = Missing \/ Complete(heap', by_scope'[r][k])]_vars

\* C12: when the provider or a configure step of K raises E, in get, in
\* aget, or while aget awaits the construction, the caller receives
\* ComponentCreationError for K with cause E.
C12_ProviderErrorsWrapped ==
  \A d \in Done :
    (~Out(d).ok /\ Last(Out(d).err) = Err("UserError", Out(d).key))
    => Out(d).err = CreationError(Out(d).key, UserError(Out(d).key))

\* C13: a resolution that reaches a key with no binding fails with
\* ProviderNotFoundError for that key, and its origin is the component that
\* requested the key: none for a top-level call, otherwise a component that
\* has the key among its constructor parameters.
C13_NotFoundNamesRequester ==
  \A d \in Done :
    LET e == Out(d).err
    IN (CanonicalKey(Out(d).key) \notin Bound
        \/ \E x \in DepsOf(Out(d).key) : CanonicalKey(x) \notin Bound)
       => /\ ~Out(d).ok /\ Len(e) = 1 /\ e[1].ty = "ProviderNotFoundError"
          /\ e[1].key \notin Bound
          /\ IF e[1].key = Out(d).key THEN e[1].origin = "none"
             ELSE e[1].origin \in Keys /\ e[1].key \in Range(Deps(e[1].origin))

\* the request bucket the call stack t works under in this step
OwnId(t) == IF sid[t] = <<>> THEN None ELSE Last(sid[t])

\* C14: a call stack that works under request id R1 changes no bucket but
\* R1's, and a get of a request-scoped key that it finishes returns an
\* instance of R1's bucket that no other id's bucket holds.
C14_RequestBucketsNotShared ==
  [][/\ \A r \in DOMAIN by_scope :
          by_scope'[r] # by_scope[r]
          => \E t \in Procs : stack'[t] # stack[t] /\ OwnId(t) = r
     /\ \A r \in DOMAIN by_scope' :
          r \notin DOMAIN by_scope
          => \E t \in Procs : stack'[t] # stack[t] /\ OwnId(t) = r
     /\ \A t \in Procs :
          (Len(hist'[t]) = Len(hist[t]) + 1 /\ Last(hist'[t]).ok
           /\ Last(hist'[t]).key \in Bound
           /\ Scope(CanonicalKey(Last(hist'[t]).key)) = SCOPE_REQUEST)
          => /\ OwnId(t) \in DOMAIN by_scope'
             /\ by_scope'[OwnId(t)][Last(hist'[t]).key] = Last(hist'[t]).val
             /\ \A r \in DOMAIN by_scope' \ {OwnId(t)} : \A k \in AllKeys :
                  by_scope'[r][k] # Last(hist'[t]).val]_vars

\* C14 witness: both call stacks have resolved R, t1 under id 1 and t2 under
\* id 2, while both ids were active
C14_Witness ==
  /\ sid["t1"] = <<1>> /\ sid["t2"] = <<2>>
  /\ hist["t1"] # <<>> /\ hist["t1"][1].key = "R" /\ hist["t1"][1].ok
  /\ hist["t2"] # <<>> /\ hist["t2"][1].key = "R" /\ hist["t2"][1].ok
  /\ hist["t1"][1].val # hist["t2"][1].val

\* C17: resolving a request-scoped key while the call stack has no active
\* request id raises ScopeError; no bucket is created and nothing is
\* constructed or cached.
C17_NoActiveScopeRaises ==
  [][\A t \in Procs :
       (stack[t] # <<>> /\ stack'[t] # stack[t] /\ sid[t] = <<>>
        /\ Scope(CanonicalKey(Top(t).req)) = SCOPE_REQUEST)
       => /\ FailsNow(t) /\ Last(hist'[t]).err = ScopeErr(CanonicalKey(Top(t).req))
          /\ by_scope' = by_scope /\ singleton' = singleton
          /\ heap' = heap /\ calls' = calls]_vars

\* C17 witness: get("R") outside a request block has failed with ScopeError
\* and the container is as it was
C17_Witness ==
  /\ \E d \in Done : Out(d).key = "R" /\ Out(d).err = ScopeErr("R") /\ Out(d).sid = None
  /\ by_scope = <<>> /\ heap = <<>> /\ calls["R"] = 0

\* C18: a request bucket exists only while its id is active: every id that
\* has a bucket is the active id of some call stack.
C18_BucketWithinActiveWindow ==
  \A r \in DOMAIN by_scope : \E t \in Procs : r \in Range(sid[t])

\* the buckets _by_scope["request"] holds
Mapped == {bmap[i].ref : i \in 1..Len(bmap)}

\* C15: two call stacks that fetch the bucket of the same request id get
\* the same bucket, and no bucket that for_scope made is lost: it is in the
\* map until cleanup_scope removes it.
C15_ForScopeOneBucket ==
  /\ \A t, u \in Procs :
       (spc[t] = "hold" /\ spc[u] = "hold" /\ cur[t] = cur[u]
        /\ sbk[t] \notin popped \cup {1} /\ sbk[u] \notin popped \cup {1})
       => sbk[t] = sbk[u]
  /\ \A b \in 2..Len(bstore) : b \in Mapped \cup popped

\* C16: the current request id of a call stack is the id of its innermost
\* open block, and none when no block is open: leaving a nested block
\* restores the id of the enclosing one, leaving the outermost restores
\* what was current before it.
C16_NestedRestore ==
  \A t \in Procs :
    cur[t] = IF toks[t] = <<>> THEN None ELSE Last(toks[t]).id

\* C16 witness: t1 has left the inner block of id 2 and is back in the
\* block of id 1
C16_Witness ==
  /\ closed["t1"] = 2 /\ Len(toks["t1"]) = 1
  /\ toks["t1"][1].id = 1 /\ cur["t1"] = 1

\* C19: cleanup_scope("request", r) takes r's bucket out of the map and
\* invokes the cleanup hook of every object of that bucket once, also after
\* a hook that raises; the singleton bucket, the other ids' buckets and the
\* objects outside r's bucket are left as they were.
C19_CleanupScopeFrame ==
  [][\A r \in RIDs :
       (BucketOf(bmap, r) # None /\ BucketOf(bmap', r) = None)
       => /\ \A o \in DOMAIN cleaned :
               cleaned'[o] = IF o \in Range(bstore[BucketOf(bmap, r)]) /\ okind[o] # "none"
                             THEN cleaned[o] + 1 ELSE cleaned[o]
          /\ bstore' = bstore
          /\ \A q \in RIDs \ {r} : BucketOf(bmap', q) = BucketOf(bmap, q)]_vars

\* C19 witness: a bucket of two objects was cleaned up, the hook of the
\* first raised and the hook of the second was invoked all the same
C19_Witness ==
  \E b \in popped :
    /\ Len(bstore[b]) = 2
    /\ okind[bstore[b][1]] = "raise" /\ okind[bstore[b][2]] = "ok"
    /\ cleaned[bstore[b][1]] = 1 /\ cleaned[bstore[b][2]] = 1

\* C20: shutdown invokes the cleanup hook of every cached object, also when
\* one of the hooks raises, and takes the container out of the registry.
C20_ShutdownBestEffort ==
  [][(shut = "no" /\ shut' # "no")
     => /\ \A o \in Range(bstore[1] \o AllItems(bmap)) :
             okind[o] # "none" => cleaned'[o] = cleaned[o] + 1
        /\ registered' = FALSE]_vars

\* C21: an observer that raises does not affect resolution: no call fails
\* with the observer's exception, whether at top level or as the cause of a
\* creation error, and every observer has received a callback for every
\* cache hit and every commit.
C21_ObserverFailureIsolated ==
  /\ \A d \in Done : ~Out(d).ok => Last(Out(d).err).ty # "ObserverError"
  /\ \A i \in 1..Len(observers) : notified[i] = events

\* C22: bind(K, P2) after get(K) has cached an instance removes the cached
\* instance of K from every bucket, and a get(K) that returns after the bind
\* returns an object made by P2.
C22_BindClearsCache ==
  [][/\ \A k \in Keys :
          binding'[k] # binding[k]
          => /\ singleton'[k] = Missing
             /\ \A r \in DOMAIN by_scope' : by_scope'[r][k] = Missing
     /\ \A t \in Procs :
          LET o == Last(hist'[t])
          IN (Len(hist'[t]) = Len(hist[t]) + 1 /\ o.ok /\ o.val # None
              /\ CanonicalKey(o.key) \in Keys)
             => heap'[o.val].by = binding[CanonicalKey(o.key)]]_vars

\* the keys of the provider calls in progress on a call stack, outermost first
RECURSIVE InProgress(_)
InProgress(frames) ==
  IF frames = <<>> THEN <<>>
  ELSE InProgress(Front(frames)) \o (IF Last(frames).pushed THEN <<Last(frames).key>> ELSE <<>>)

\* C23: the resolution chain of a call stack is exactly the keys of its
\* provider calls in progress: a get/aget that returns or raises leaves the
\* chain as it was before the call, empty at top level, so a sibling
\* resolution meets neither a stale key nor a missing one.
C23_ChainRestored ==
  \A t \in Procs : chain[t] = InProgress(stack[t])

\* C23 witness: get("A") has failed twice on the cycle A -> B -> A, both
\* times with the chain A, B, and the caller's chain is empty again
C23_Witness ==
  /\ Len(hist["t1"]) = 2 /\ stack["t1"] = <<>> /\ chain["t1"] = <<>>
  /\ \A i \in 1..2 : /\ hist["t1"][i].key = "A" /\ ~hist["t1"][i].ok
                       /\ Last(hist["t1"][i].err).chain = <<"A", "B">>

\* the keys reached from the keys S along at most k more edges of g
RECURSIVE Closure(_, _, _)
Closure(g, S, k) ==
  IF k = 0 THEN S
  ELSE Closure(g, S \cup UNION {Range(Edges(g, x)) : x \in S}, k - 1)

\* the static graph has a cycle: a component reaches itself
HasCycle(g) ==
  \E n \in DOMAIN g : n \in Closure(g, Range(Edges(g, n)), Cardinality(DOMAIN g))

\* C24: when the static dependency graph of the descriptor table has a
\* cycle, init() fails, in validation or in the cycle check, and no class
\* is ever instantiated; the cycle the error names is a cycle of the graph.
C24_CycleFailsBuild ==
  /\ HasCycle(Graph(table)) => (phase \in {"new", "invalid", "cycle"} /\ made = {})
  /\ phase = "cycle" =>
       /\ Len(cycle) >= 2 /\ cycle[1] = Last(cycle)
       /\ \A i \in 1..(Len(cycle) - 1) : cycle[i + 1] \in Range(Edges(Graph(table), cycle[i]))

\* C24 witness: init() has failed on the cycle a -> b -> c -> a
C24_Witness ==
  phase = "cycle" /\ cycle = <<"a", "b", "c", "a">> /\ made = {}

\* the parameters of the table as <<component, index>>
Requests == {<<n, i>> : n \in Comps, i \in 1..MaxParams + 1} \cap
            UNION {{<<n, i>> : i \in 1..Len(table[n])} : n \in Comps}

\* a parameter without default that is not a list and whose key has no
\* descriptor and no binding
Unresolved(q) ==
  table[q[1]][q[2]].kind = "req" /\ table[q[1]][q[2]].key \notin Comps

C27_ConfigureInDeclarationOrder ==
  \A k \in made : hooks[k].ran = hooks[k].declared

\* C30: a call that asks for a type without a binding of its own is answered
\* by the descriptor of a subtype: the primary one if there is one, otherwise
\* the one registered first; a type that no descriptor matches is looked up
\* as it was asked and the call fails with ProviderNotFoundError for it.
Subtypes(base) == {k \in Keys : SubclassOf(k, base)}
Position(k) == CHOOSE i \in 1..Len(Registration) : Registration[i] = k
FirstOf(ks) == CHOOSE k \in ks : \A x \in ks : Position(k) <= Position(x)
Preferred(base) ==
  LET prim == {k \in Subtypes(base) : Primary(k)}
  IN IF prim # {} THEN FirstOf(prim) ELSE FirstOf(Subtypes(base))
C30_SubtypeLookup ==
  \A d \in Done :
    LET o == Out(d)
    IN (o.key \notin Bound /\ IsType(o.key))
       => IF Subtypes(o.key) # {}
          THEN IF o.ok THEN heap[o.val].key = Preferred(o.key)
               ELSE o.err[1].key = Preferred(o.key)
          ELSE ~o.ok /\ o.err = NotFoundError(o.key, <<>>)
C30_Witness ==
  \E d \in Done : Out(d).key = "T" /\ Out(d).ok /\ heap[Out(d).val].key = "S"
C30_WitnessFirst ==
  \E d \in Done : Out(d).key = "U" /\ Out(d).ok /\ heap[Out(d).val].key = "R"
C30_WitnessNoMatch ==
  \E d \in Done : Out(d).key = "X" /\ ~Out(d).ok

\* C26: with interceptors I1..In declared on M in that order, each of which
\* finishes the continuation before its after part (plain interceptors on a
\* synchronous M, awaiting ones on an asynchronous M), one call of M through
\* the proxy runs I1-before, .., In-before, M, In-after, .., I1-after, and M
\* runs exactly once.
Nested(n) ==
  [i \in 1..(2 * n + 1) |->
     IF i <= n THEN Before(i) ELSE IF i = n + 1 THEN MethodRan ELSE After(2 * n + 2 - i)]
Proceeding ==
  \A i \in 1..Len(icpts) : icpts[i] = (IF is_async THEN "awaiting" ELSE "plain")
GivesPending ==
  \E i \in 1..Len(icpts) :
    icpts[i] \in {"awaiting", "pending"} /\ \A j \in 1..(i - 1) : icpts[j] = "plain"
C28_PendingOnSyncFails ==
  (last # <<>> /\ GivesPending)
    => IF is_async
       THEN last[1].out # "RuntimeError" /\ last[1].awaited
       ELSE last[1].out = "RuntimeError" /\ last[1].name = "M"
C28_Witness ==
  last # <<>> /\ ~is_async /\ icpts[1] = "pending" /\ last[1].out = "RuntimeError"
C28_WitnessAsync ==
  last # <<>> /\ is_async /\ icpts[1] = "pending" /\ last[1].awaited

\* C29: the chain a call of M uses was built under the scope signature that
\* is active at the call: one cached under request id R1 is not used under
\* another id R2; and a call rebuilds the chain only if none was cached or the
\* signature has changed since it was built.
ActiveSignature(id) == IF md_scope = SCOPE_SINGLETON THEN <<>> ELSE <<id>>
C29_ChainOfActiveSignature ==
  last # <<>>
    => /\ ActiveSignature(last[1].under) = ActiveSignature(last[1].at)
       /\ (last[1].rebuilt /\ last[1].prev # <<>>)
            => ActiveSignature(last[1].prev[1]) # ActiveSignature(last[1].at)

\* C36: an instance asked for by a key that is not its canonical key (a
\* supertype of the class of K) is looked up and committed under K: no bucket
\* holds an entry under the key as asked, and two get calls by that key that
\* return an instance of a singleton K return the same one, K's provider
\* having run once.
C36_AliasCommitsUnderCanonicalKey ==
  /\ \A k \in AllKeys \ Bound :
       singleton[k] = Missing /\ \A r \in DOMAIN by_scope : by_scope[r][k] = Missing
  /\ \A i, j \in 1..Len(hist["t1"]) :
       LET a == hist["t1"][i]
           b == hist["t1"][j]
       IN (i < j /\ a.key = b.key /\ a.key \notin Bound /\ Subtypes(a.key) # {}
           /\ Scope(Preferred(a.key)) = SCOPE_SINGLETON
           /\ a.ok /\ b.ok /\ a.val # None)
          => a.val = b.val /\ calls[Preferred(a.key)] = 1

\* C34: every call of has(key) answers true or false and raises nothing,
\* whatever request id is or is not active, and it answers true exactly when
\* a bucket holds an instance under the key or the key has a binding.
Held(k) == singleton[k] # Missing \/ \E r \in DOMAIN by_scope : by_scope[r][k] # Missing
C34_HasIsTotal ==
  [][probe' # probe
     => /\ probe'[1].out \in {"true", "false"}
        /\ (probe'[1].out = "true") <=> (Held(probe'[1].key) \/ probe'[1].key \in Bound)]_vars

\* C38: in a call of a synchronous M, an interceptor at position i that calls
\* the continuation twice runs the rest of the chain twice: every interceptor
\* after i (all of them plain) runs as often as M does.
Count(tr, e) == Cardinality({x \in 1..Len(tr) : tr[x] = e})
C38_CallNextRunsRemainder ==
  (last # <<>> /\ ~is_async)
    => \A i \in 1..Len(icpts) :
         (icpts[i] = "retry" /\ \A j \in 1..Len(icpts) : j # i => icpts[j] = "plain")
           => \A j \in (i + 1)..Len(icpts) :
                Count(last[1].trace, Before(j)) = Count(last[1].trace, MethodRan)

\* C37: no accessor of a lazy proxy obtains the target before the target's
\* configure hooks have completed, also while a task is inside
\* _async_init_if_needed and another accessor reads the proxy.
C37_TargetSeenOnlyConfigured ==
  phook # "absent"
    => \A a \in Accessors : aobs[a] \notin {None, Failed} => pconf

\* C31: when one of the active candidates registered for K is declared
\* primary, the candidate bound to K is a primary one, whatever the order of
\* registration and the other attributes of the candidates.
C31_PrimaryWins ==
  (rphase = "done"
   /\ \E i \in 1..Len(decls) :
        decls[i].kind = "regular" /\ decls[i].gate /\ decls[i].primary)
    => rbound # 0 /\ decls[rbound].primary

\* C32: a fallback declared for K is bound to K exactly when no active
\* regular declaration provides K; with one, no fallback is bound.
Provides(c) == c.kind \in {"regular", "subtype"} /\ c.gate
C32_FallbackOnlyWhenMissing ==
  rphase = "done"
    => LET regular == \E i \in 1..Len(decls) : Provides(decls[i])
           fallback == \E i \in 1..Len(decls) : decls[i].kind = "fallback"
       IN /\ regular => (rbound = 0 \/ decls[rbound].kind # "fallback")
          /\ (~regular /\ fallback) => (rbound # 0 /\ decls[rbound].kind = "fallback")
C32_Witness ==
  /\ rphase = "done" /\ rbound # 0 /\ decls[rbound].kind = "fallback"
  /\ \E i \in 1..Len(decls) : decls[i].kind = "subtype" /\ ~decls[i].gate
C32_WitnessRegular ==
  /\ rphase = "done" /\ rbound = 0
  /\ \E i \in 1..Len(decls) : decls[i].kind = "fallback"
  /\ \E i \in 1..Len(decls) : decls[i].kind = "subtype" /\ decls[i].gate

\* C33: a declaration whose gate is inactive at startup is never bound and
\* has no descriptor in the table.
C33_InactiveRemoved ==
  rphase = "done"
    => \A i \in 1..Len(decls) : ~decls[i].gate => (rbound # i /\ i \notin rmeta)

\* C39: after finalize's scope promotion no singleton descriptor depends,
\* directly or through other descriptors, on a descriptor whose scope is not
\* singleton, whatever the order of the table.
C39_NoSingletonOverNarrower ==
  rphase = "promoted"
    => \A n \in Comps :
         mscope[n] = SCOPE_SINGLETON
           => \A m \in Closure(Graph(table), Range(Edges(Graph(table), n)), Len(Components)) \cap Comps :
                mscope[m] = SCOPE_SINGLETON

\* C35: the node the exported graph draws for a request is the key the
\* container follows for it: every object a get returned was made by the
\* provider of the key that _map_dep_to_bound_key gives for the requested key.
C35_StaticMapIsCanonical ==
  \A d \in Done :
    LET o == Out(d)
    IN o.ok => heap[o.val].key = MapDepToBoundKey(o.key)

\* C40: _find_cycle returns a path exactly when the static graph has a
\* directed cycle; the path begins and ends with the same key and each of
\* its consecutive pairs is an edge of the graph.  The cycle check of init()
\* reports the path _find_cycle returns.
C40_FindCycleExact ==
  LET g == Graph(table)
      c == FindCycle(g)
  IN /\ (c # <<>>) <=> HasCycle(g)
     /\ c # <<>> => /\ Len(c) >= 2 /\ c[1] = c[Len(c)]
                    /\ \A i \in 1..(Len(c) - 1) : c[i + 1] \in Range(Edges(g, c[i]))
     /\ phase = "cycle" => cycle = c /\ c # <<>>
     /\ phase = "ready" => c = <<>> /\ cycle = <<>>
\* the cycle check has reported a cycle that the first node is not part of
C40_Witness ==
  phase = "cycle" /\ cycle = <<"b", "c", "b">> /\ FindCycle(Graph(table)) = cycle
\* the cycle check has passed a table with dependencies and no cycle
C40_WitnessNone ==
  /\ phase = "ready"
  /\ table["a"] # <<>> /\ table["b"] # <<>> /\ FindCycle(Graph(table)) = <<>>
====
